---- MODULE Spec2Model ----
(***************************************************************************)
(* Model of the XMPie template customizer server (src/server.js, first     *)
(* copy, lines 1-813) and its thumbnail cache (src/thumbnailCache.js).     *)
(*                                                                         *)
(* SpecTicket applies generateJobTicket to the form data a request can     *)
(* carry; SpecExtract applies the three routes' extraction to the archives *)
(* a download can return.                                                  *)
(* SpecBreaker drives the circuitBreaker object alone, by arbitrary calls  *)
(* of onSuccess(), onFailure() and canRequest() while time passes.         *)
(* Spec is the server: concurrent requests on the preview, PDF and         *)
(* thumbnail routes, each advancing from one await to the next, sharing    *)
(* the breaker and the thumbnail cache.                                    *)
(***************************************************************************)
EXTENDS Integers, Sequences, FiniteSets, TLC

VARIABLES
    cb,             \* the circuitBreaker object: state, failureCount, lastFailureTime
    now,            \* Date.now(), in ms since the process started
    hist,           \* SpecBreaker: the last breaker call (op, state before, result, time)
    req,            \* Spec: the requests in progress, one per connection slot
    memoryCache,    \* thumbnailCache.js memoryCache: productId -> data URL
    blobStore,      \* the Vercel Blob store: productId (path thumbnails/<id>.jpg) -> content
    useVercelBlob,  \* thumbnailCache.js useVercelBlob, fixed by initCache()
    fnArgs,         \* SpecTicket, SpecExtract: the arguments of the call in hand
    fnResult,       \* SpecTicket, SpecExtract: << >>, or << what the call returned >>
    rateLimitStore, \* server.js rateLimitStore: ip -> {count, resetTime}
    adminKey        \* process.env.ADMIN_API_KEY: << >> when not set, else << its characters >>

vars == <<cb, now, hist, req, memoryCache, blobStore, useVercelBlob,
          fnArgs, fnResult, rateLimitStore, adminKey>>

-----------------------------------------------------------------------------
(* Bounds of the model *)

\* Time stops advancing here.
MaxNow == 45002
\* onFailure() is not called any more once failureCount has reached this.
MaxFailures == 6
\* The steps by which time advances between two events.
TickSteps == {15000, 30001}

-----------------------------------------------------------------------------
(* The circuit breaker, server.js 219-263 *)

failureThreshold == 5
resetTimeout == 30000

InitBreaker == [state |-> "CLOSED", failureCount |-> 0, lastFailureTime |-> 0]

\* hist.streak counts the onFailure() calls since the last onSuccess() (or
\* since construction); hist.failAt is the time of the last onFailure().
InitHist == [op |-> "none", pre |-> InitBreaker, ret |-> TRUE, at |-> 0,
             streak |-> 0, failAt |-> 0]

\* Mutant: the count is reset but the state is left as it was.
onSuccess_keepsState(c) == [c EXCEPT !.failureCount = 0]

\* Mutant: the state is reset but the count is left as it was.
onSuccess_keepsCount(c) == [c EXCEPT !.state = "CLOSED"]

onSuccess(c) == [c EXCEPT !.failureCount = 0, !.state = "CLOSED"]

\* Mutant: the breaker opens one failure late (> instead of >=).
onFailure_offByOne(c, t) ==
    LET c1 == [c EXCEPT !.failureCount = @ + 1, !.lastFailureTime = t]
    IN  IF c1.failureCount > failureThreshold
        THEN [c1 EXCEPT !.state = "OPEN"]
        ELSE c1

onFailure(c, t) ==
    LET c1 == [c EXCEPT !.failureCount = @ + 1, !.lastFailureTime = t]
    IN  IF c1.failureCount >= failureThreshold
        THEN [c1 EXCEPT !.state = "OPEN"]
        ELSE c1

\* Mutant: the probe is admitted when exactly resetTimeout has elapsed (>=).
canRequest_atTimeout(c, t) ==
    IF c.state = "CLOSED" THEN [ret |-> TRUE, cb |-> c]
    ELSE IF c.state = "OPEN"
         THEN IF t - c.lastFailureTime >= resetTimeout
              THEN [ret |-> TRUE, cb |-> [c EXCEPT !.state = "HALF_OPEN"]]
              ELSE [ret |-> FALSE, cb |-> c]
         ELSE [ret |-> TRUE, cb |-> c]

\* Mutant: HALF_OPEN admits no one; the probe is the call that left OPEN.
canRequest_oneProbe(c, t) ==
    IF c.state = "CLOSED" THEN [ret |-> TRUE, cb |-> c]
    ELSE IF c.state = "OPEN"
         THEN IF t - c.lastFailureTime > resetTimeout
              THEN [ret |-> TRUE, cb |-> [c EXCEPT !.state = "HALF_OPEN"]]
              ELSE [ret |-> FALSE, cb |-> c]
         ELSE [ret |-> FALSE, cb |-> c]

\* canRequest() returns a boolean and may change the state: both are given.
canRequest(c, t) ==
    IF c.state = "CLOSED" THEN [ret |-> TRUE, cb |-> c]
    ELSE IF c.state = "OPEN"
         THEN IF t - c.lastFailureTime > resetTimeout
              THEN [ret |-> TRUE, cb |-> [c EXCEPT !.state = "HALF_OPEN"]]
              ELSE [ret |-> FALSE, cb |-> c]
         ELSE [ret |-> TRUE, cb |-> c]


-----------------------------------------------------------------------------
(* JavaScript values *)

\* undefined and null, which are no strings of the program.
Undefined == "<undefined>"
Null == "<null>"
\* !v for the values the model uses.
Falsy(v) == v \in {Undefined, Null, ""}

\* obj[key], undefined when the object has no such property.
Get(obj, key) == IF key \in DOMAIN obj THEN obj[key] ELSE Undefined

\* map.set(key, value) and map.delete(key) on a Map held as a function.
MapSet(m, key, value) ==
    [k \in DOMAIN m \cup {key} |-> IF k = key THEN value ELSE m[k]]
MapDelete(m, key) == [k \in DOMAIN m \ {key} |-> m[k]]

-----------------------------------------------------------------------------
(* Strings. A string of the program is a TLA+ string; the operations that   *)
(* look inside one work on its sequence of characters, Chars(s).            *)

Digits == {"0", "1", "2", "3", "4", "5", "6", "7", "8", "9"}

\* sanitizeInput keeps the first MaxInputLength characters of a string.
MaxInputLength == 500

\* A text one character longer than sanitizeInput keeps, and what
\* substring(0, 500) leaves of it.
LongText == "aaaaaaaaaaaaaaaaaaaaaaaaaaaaaaaaaaaaaaaaaaaaaaaaaaaaaaaaaaaaaaaaaaaaaaaaaaaaaaaaaaaaaaaaaaaaaaaaaaaaaaaaaaaaaaaaaaaaaaaaaaaaaaaaaaaaaaaaaaaaaaaaaaaaaaaaaaaaaaaaaaaaaaaaaaaaaaaaaaaaaaaaaaaaaaaaaaaaaaaaaaaaaaaaaaaaaaaaaaaaaaaaaaaaaaaaaaaaaaaaaaaaaaaaaaaaaaaaaaaaaaaaaaaaaaaaaaaaaaaaaaaaaaaaaaaaaaaaaaaaaaaaaaaaaaaaaaaaaaaaaaaaaaaaaaaaaaaaaaaaaaaaaaaaaaaaaaaaaaaaaaaaaaaaaaaaaaaaaaaaaaaaaaaaaaaaaaaaaaaaaaaaaaaaaaaaaaaaaaaaaaaaaaaaaaaaaaaaaaaaaaaaaaaaaaaaaaaaaaaaaaaaaaaaaaaaaaaaaaaaaaaaaaaaaaaaaaaaaaaaa"
LongTextCut == "aaaaaaaaaaaaaaaaaaaaaaaaaaaaaaaaaaaaaaaaaaaaaaaaaaaaaaaaaaaaaaaaaaaaaaaaaaaaaaaaaaaaaaaaaaaaaaaaaaaaaaaaaaaaaaaaaaaaaaaaaaaaaaaaaaaaaaaaaaaaaaaaaaaaaaaaaaaaaaaaaaaaaaaaaaaaaaaaaaaaaaaaaaaaaaaaaaaaaaaaaaaaaaaaaaaaaaaaaaaaaaaaaaaaaaaaaaaaaaaaaaaaaaaaaaaaaaaaaaaaaaaaaaaaaaaaaaaaaaaaaaaaaaaaaaaaaaaaaaaaaaaaaaaaaaaaaaaaaaaaaaaaaaaaaaaaaaaaaaaaaaaaaaaaaaaaaaaaaaaaaaaaaaaaaaaaaaaaaaaaaaaaaaaaaaaaaaaaaaaaaaaaaaaaaaaaaaaaaaaaaaaaaaaaaaaaaaaaaaaaaaaaaaaaaaaaaaaaaaaaaaaaaaaaaaaaaaaaaaaaaaaaaaaaaaaaaaaaaaaa"

\* The characters of the strings that product ids, variable names and values
\* take here.
Chars(s) ==
    CASE s = "" -> << >>
      [] s = "EN" -> <<"E", "N">>
      [] s = "A4" -> <<"A", "4">>
      [] s = "Letter" -> <<"L", "e", "t", "t", "e", "r">>
      [] s = "Your Headline Here" ->
            <<"Y", "o", "u", "r", " ", "H", "e", "a", "d", "l", "i", "n", "e",
              " ", "H", "e", "r", "e">>
      [] s = "29/01/2026" -> <<"2", "9", "/", "0", "1", "/", "2", "0", "2", "6">>
      [] s = "1/2/2026" -> <<"1", "/", "2", "/", "2", "0", "2", "6">>
      [] s = "29/01/26" -> <<"2", "9", "/", "0", "1", "/", "2", "6">>
      [] s = "129/1/2026" -> <<"1", "2", "9", "/", "1", "/", "2", "0", "2", "6">>
      [] s = "1/2/20260" -> <<"1", "/", "2", "/", "2", "0", "2", "6", "0">>
      [] s = "soon" -> <<"s", "o", "o", "n">>
      [] s = "a\"b" -> <<"a", "\"", "b">>
      [] s = "pageSize" -> <<"p", "a", "g", "e", "S", "i", "z", "e">>
      [] s = "language" -> <<"l", "a", "n", "g", "u", "a", "g", "e">>
      [] s = "eventDate" -> <<"e", "v", "e", "n", "t", "D", "a", "t", "e">>
      [] s = "firstName" -> <<"f", "i", "r", "s", "t", "N", "a", "m", "e">>
      [] s = "headline" -> <<"h", "e", "a", "d", "l", "i", "n", "e">>
      [] s = "note" -> <<"n", "o", "t", "e">>
      [] s = "DueDATE" -> <<"D", "u", "e", "D", "A", "T", "E">>
      [] s = "brochure-a" -> <<"b", "r", "o", "c", "h", "u", "r", "e", "-", "a">>
      [] s = "flyer-b" -> <<"f", "l", "y", "e", "r", "-", "b">>
      [] s = "card-c" -> <<"c", "a", "r", "d", "-", "c">>
      [] s = "card-c.jpg" -> <<"c", "a", "r", "d", "-", "c", ".", "j", "p", "g">>
      [] s = "<b>soon</b>" ->
            <<"<", "b", ">", "s", "o", "o", "n", "<", "/", "b", ">">>
      [] s = " soon " -> <<" ", "s", "o", "o", "n", " ">>
      [] s = "7" -> <<"7">>
      [] s = "nope" -> <<"n", "o", "p", "e">>
      [] s = LongText -> [i \in 1..501 |-> "a"]
      [] s = LongTextCut -> [i \in 1..500 |-> "a"]

\* One character of s.toLowerCase().
LowerOf(ch) ==
    CASE ch = "A" -> "a" [] ch = "B" -> "b" [] ch = "C" -> "c" [] ch = "D" -> "d"
      [] ch = "E" -> "e" [] ch = "F" -> "f" [] ch = "G" -> "g" [] ch = "H" -> "h"
      [] ch = "I" -> "i" [] ch = "J" -> "j" [] ch = "K" -> "k" [] ch = "L" -> "l"
      [] ch = "M" -> "m" [] ch = "N" -> "n" [] ch = "O" -> "o" [] ch = "P" -> "p"
      [] ch = "Q" -> "q" [] ch = "R" -> "r" [] ch = "S" -> "s" [] ch = "T" -> "t"
      [] ch = "U" -> "u" [] ch = "V" -> "v" [] ch = "W" -> "w" [] ch = "X" -> "x"
      [] ch = "Y" -> "y" [] ch = "Z" -> "z" [] OTHER -> ch

toLowerCase(chars) == [i \in 1..Len(chars) |-> LowerOf(chars[i])]

\* chars.includes(sub)
includes(chars, sub) ==
    \E i \in 1..(Len(chars) - Len(sub) + 1) :
        SubSeq(chars, i, i + Len(sub) - 1) = sub

\* /^\d{1,2}\/\d{1,2}\/\d{4}$/.test(chars)
MatchesDate(chars) ==
    \E a \in 1..2, b \in 1..2 :
        /\ Len(chars) = a + b + 6
        /\ \A i \in 1..a : chars[i] \in Digits
        /\ chars[a + 1] = "/"
        /\ \A i \in (a + 2)..(a + b + 1) : chars[i] \in Digits
        /\ chars[a + b + 2] = "/"
        /\ \A i \in (a + b + 3)..(a + b + 6) : chars[i] \in Digits

-----------------------------------------------------------------------------
(* The product catalog, products.json as MULTI_TEMPLATE_GUIDE.md lays it out. *)
(* brochure-a has a pageSize selector, a date variable with an empty        *)
(* default and a variable without a default; flyer-b has a static           *)
(* thumbnail and a variable that names a plan object but no type; card-c    *)
(* has no pageSize variable and a date variable spelled in upper case.      *)

productsConfig == <<
    [id |-> "brochure-a", campaignId |-> 9767, planId |-> 9709,
     thumbnail |-> Undefined,
     sizes |-> << [name |-> "A4", documentId |-> 39859],
                  [name |-> "Letter", documentId |-> 39860] >>,
     variables |-> <<
        [name |-> "pageSize", planObjectName |-> Null, planObjectType |-> Null,
         defaultValue |-> "A4"],
        [name |-> "language", planObjectName |-> "Language",
         planObjectType |-> "Variable", defaultValue |-> "EN"],
        [name |-> "eventDate", planObjectName |-> "EventDate",
         planObjectType |-> "Variable", defaultValue |-> ""],
        [name |-> "firstName", planObjectName |-> "FirstName",
         planObjectType |-> "ADOR", defaultValue |-> Undefined] >>],
    [id |-> "flyer-b", campaignId |-> 1234, planId |-> 5678,
     thumbnail |-> "/images/flyer-b.jpg",
     sizes |-> << [name |-> "A4", documentId |-> 11111] >>,
     variables |-> <<
        [name |-> "pageSize", planObjectName |-> Null, planObjectType |-> Null,
         defaultValue |-> "A4"],
        [name |-> "note", planObjectName |-> "Note", planObjectType |-> Null,
         defaultValue |-> "EN"],
        [name |-> "headline", planObjectName |-> "VAR_Headline",
         planObjectType |-> "Variable", defaultValue |-> "Your Headline Here"] >>],
    [id |-> "card-c", campaignId |-> 1234, planId |-> 5679,
     thumbnail |-> Undefined,
     sizes |-> << [name |-> "Letter", documentId |-> 22222] >>,
     variables |-> <<
        [name |-> "headline", planObjectName |-> "VAR_Headline",
         planObjectType |-> "Variable", defaultValue |-> "" ],
        [name |-> "DueDATE", planObjectName |-> "DueDate",
         planObjectType |-> "Variable", defaultValue |-> "1/2/2026"] >>]
>>

\* array.find(pred): << x >> for the first element x satisfying pred, << >>
\* for undefined. hits is the set of the indices whose element satisfies pred.
Find(seq, hits) ==
    IF hits # {}
    THEN << seq[CHOOSE i \in hits : \A j \in hits : i <= j] >>
    ELSE << >>

getProductById(productId) ==
    Find(productsConfig,
         {i \in 1..Len(productsConfig) : productsConfig[i].id = productId})

\* The model's productIds are strings, so the typeof test always passes.
validateProductId(productId) ==
    /\ ~Falsy(productId)
    /\ \E i \in 1..Len(productsConfig) : productsConfig[i].id = productId

-----------------------------------------------------------------------------
(* generateJobTicket, server.js 286-410 *)

\* Mutant: a size that is not offered falls back to the product's first size.
findSize_fallsBack(product, pageSize) ==
    LET hit == Find(product.sizes, {i \in 1..Len(product.sizes) :
                                       product.sizes[i].name = pageSize})
    IN  IF hit = << >> THEN << product.sizes[1] >> ELSE hit

\* product.sizes.find(s => s.name === formData.pageSize)
findSize(product, pageSize) ==
    Find(product.sizes, {i \in 1..Len(product.sizes) :
                            product.sizes[i].name = pageSize})

\* Mutant: the default wins over the submitted value.
ResolveValue_defaultFirst(formData, variable) ==
    IF variable.defaultValue # Undefined
    THEN variable.defaultValue
    ELSE Get(formData, variable.name)

\* formData[name] !== undefined ? formData[name] : variable.defaultValue
ResolveValue(formData, variable) ==
    IF Get(formData, variable.name) # Undefined
    THEN Get(formData, variable.name)
    ELSE variable.defaultValue

\* Mutant: only the variable's name decides.
isDateField_nameOnly(name, value) ==
    includes(toLowerCase(Chars(name)), <<"d", "a", "t", "e">>)

\* Mutant: name and value must both say date.
isDateField_both(name, value) ==
    /\ includes(toLowerCase(Chars(name)), <<"d", "a", "t", "e">>)
    /\ ~Falsy(value) /\ MatchesDate(Chars(value))

\* name.toLowerCase().includes('date') || (value && regex.test(value))
isDateField(name, value) ==
    \/ includes(toLowerCase(Chars(name)), <<"d", "a", "t", "e">>)
    \/ (~Falsy(value) /\ MatchesDate(Chars(value)))

\* The PlanObjectExpression, as its characters: #value# for a date that has
\* a value, "value" for everything else, with '' for a value that is falsy.
Expression(name, value) ==
    IF isDateField(name, value) /\ ~Falsy(value)
    THEN <<"#">> \o Chars(value) \o <<"#">>
    ELSE <<"\"">> \o (IF Falsy(value) THEN << >> ELSE Chars(value)) \o <<"\"">>

\* Mutant: every variable of the product gets an entry.
IsPlanBound_always(variable) == TRUE

\* variable.planObjectName && variable.planObjectType
IsPlanBound(variable) ==
    ~Falsy(variable.planObjectName) /\ ~Falsy(variable.planObjectType)

\* product.variables.forEach(... customizations.push(...)), from the first n
\* variables of the product.
RECURSIVE CustomizationsOf(_, _, _)
CustomizationsOf(product, formData, n) ==
    IF n = 0 THEN << >>
    ELSE LET variable == product.variables[n]
             rest == CustomizationsOf(product, formData, n - 1)
         IN  IF IsPlanBound(variable)
             THEN Append(rest,
                    [PlanObjectName |-> variable.planObjectName,
                     PlanObjectType |-> variable.planObjectType,
                     PlanObjectExpression |->
                        Expression(variable.name,
                                   ResolveValue(formData, variable))])
             ELSE rest

ProductionPolicies ==
    [MissingFonts |-> "Ignore", MissingAssets |-> "Ignore",
     MissingStyles |-> "Ignore", TextOverflow |-> "Ignore",
     FileSizeLimitReached |-> "FailJob"]

\* Mutant: every job reads the named recipient table.
RecipientsDataSources_table(jobType) ==
    << [Id |-> 14485, FilterType |-> "TableName", Filter |-> "RecipientList"] >>

RecipientsDataSources(jobType) ==
    IF jobType = "Proof"
    THEN << [FilterType |-> "NoDataSource", Filter |-> "Dummy Data"] >>
    ELSE << [Id |-> 14485, FilterType |-> "TableName",
             Filter |-> "RecipientList"] >>

\* baseTicket.Job, with the Priority the Proof branch adds.
JobOf(product, jobType) ==
    IF jobType = "Proof"
    THEN [JobType |-> jobType, Context |-> [CampaignId |-> product.campaignId],
          Priority |-> "Immediately"]
    ELSE [JobType |-> jobType, Context |-> [CampaignId |-> product.campaignId]]

\* baseTicket.Output of the two branches.
OutputOf(jobType) ==
    IF jobType = "Proof"
    THEN [Format |-> "JPG", FileName |-> [Automatic |-> TRUE],
          Bleed |-> [UseDocumentDefinition |-> FALSE, Top |-> 0, Bottom |-> 0,
                     LeftOrInside |-> 0, RightOrOutside |-> 0],
          Resolution |-> 150,
          ProductionPolicies |-> ProductionPolicies]
    ELSE [Format |-> "PDF", FileName |-> [Automatic |-> TRUE],
          Bleed |-> [UseDocumentDefinition |-> TRUE],
          PdfSettings |-> "XMPiEQualityHigh",
          PdfCompatibilityLevel |-> "PdfVersion16",
          PdfStandardsCompliance |-> "PDFX42010",
          FlatteningHandlerType |-> "UseXDot",
          ProductionPolicies |-> ProductionPolicies]

\* generateJobTicket either throws (threw, with the Error's message) or
\* returns the ticket.
generateJobTicket(formData, jobType) ==
    LET product == getProductById(Get(formData, "productId")) IN
    IF product = << >>
    THEN [threw |-> TRUE, message |-> "Product not found"]
    ELSE
      LET sizeConfig == findSize(product[1], Get(formData, "pageSize"))
      IN  IF sizeConfig = << >>
          THEN [threw |-> TRUE, message |-> "Size not found"]
          ELSE [threw |-> FALSE,
                ticket |->
                  [Job |-> JobOf(product[1], jobType),
                   Data |-> [Range |-> [All |-> FALSE, From |-> 1, To |-> 1],
                             RecipientsDataSources |->
                                RecipientsDataSources(jobType),
                             Assets |-> [UseCampaignAssetSources |-> TRUE,
                                         Media |-> "Print"]],
                   Plan |-> [Id |-> product[1].planId,
                             Customizations |->
                                CustomizationsOf(product[1], formData,
                                                 Len(product[1].variables))],
                   Document |-> [Id |-> sizeConfig[1].documentId,
                                 Fonts |-> [UseCampaignFonts |-> TRUE]],
                   Output |-> OutputOf(jobType)]]

-----------------------------------------------------------------------------
(* Requests *)

\* The connections the server handles at the same time.
Slots == {"r1", "r2"}

IdleRequest ==
    [pc |-> "idle", route |-> "none", productId |-> Undefined,
     pageSize |-> Undefined, admitted |-> "notAsked", submits |-> 0,
     downloads |-> 0, succ |-> 0, fail |-> 0, job |-> "none",
     fault |-> "none", status |-> 0, error |-> "none", out |-> << >>,
     detail |-> << >>, lookup |-> "none", askedIn |-> "none"]


-----------------------------------------------------------------------------
(* The job output archive. An entry name is a sequence of characters. *)

DigitVal(ch) ==
    CASE ch = "0" -> 0 [] ch = "1" -> 1 [] ch = "2" -> 2 [] ch = "3" -> 3
      [] ch = "4" -> 4 [] ch = "5" -> 5 [] ch = "6" -> 6 [] ch = "7" -> 7
      [] ch = "8" -> 8 [] ch = "9" -> 9

\* The characters \w matches.
WordChars ==
    Digits \cup {"_"} \cup
    {"a", "b", "c", "d", "e", "f", "g", "h", "i", "j", "k", "l", "m", "n",
     "o", "p", "q", "r", "s", "t", "u", "v", "w", "x", "y", "z"} \cup
    {"A", "B", "C", "D", "E", "F", "G", "H", "I", "J", "K", "L", "M", "N",
     "O", "P", "Q", "R", "S", "T", "U", "V", "W", "X", "Y", "Z"}

\* name.endsWith(suffix)
EndsWith(name, suffix) ==
    /\ Len(name) >= Len(suffix)
    /\ SubSeq(name, Len(name) - Len(suffix) + 1, Len(name)) = suffix

IsJpgEntry(name) ==
    \/ EndsWith(name, <<".", "j", "p", "g">>)
    \/ EndsWith(name, <<".", "j", "p", "e", "g">>)

IsPdfEntry(name) == EndsWith(name, <<".", "p", "d", "f">>)

\* The value of the digits of name from position i on, continuing acc.
RECURSIVE DigitRun(_, _, _)
DigitRun(name, i, acc) ==
    IF i <= Len(name) /\ name[i] \in Digits
    THEN DigitRun(name, i + 1, acc * 10 + DigitVal(name[i]))
    ELSE acc

\* parseInt(name.match(/p(\d+)/)?.[1] || '0'): the leftmost p followed by a
\* digit, and all the digits after it.
PageOf(name) ==
    LET Hit(i) == name[i] = "p" /\ i < Len(name) /\ name[i + 1] \in Digits
    IN  IF \E i \in 1..Len(name) : Hit(i)
        THEN LET i == CHOOSE k \in 1..Len(name) :
                         Hit(k) /\ \A j \in 1..(k - 1) : ~Hit(j)
             IN  DigitRun(name, i + 1, 0)
        ELSE 0

\* Array.prototype.sort with the comparator pageA - pageB: stable, so an
\* insertion that keeps equal pages in their order.
RECURSIVE InsertByPage(_, _)
InsertByPage(sorted, name) ==
    IF sorted = << >> THEN << name >>
    ELSE IF PageOf(sorted[Len(sorted)]) <= PageOf(name)
         THEN Append(sorted, name)
         ELSE Append(InsertByPage(SubSeq(sorted, 1, Len(sorted) - 1), name),
                     sorted[Len(sorted)])

RECURSIVE SortByPage(_)
SortByPage(images) ==
    IF images = << >> THEN << >>
    ELSE InsertByPage(SortByPage(SubSeq(images, 1, Len(images) - 1)),
                      images[Len(images)])

\* Mutant: the images stay in the archive's order.
ExtractImages_archiveOrder(entries) == SelectSeq(entries, IsJpgEntry)

\* The images of the preview: the entries ending in .jpg or .jpeg, sorted by
\* page number.
ExtractImages(entries) == SortByPage(SelectSeq(entries, IsJpgEntry))

\* The body of the preview's response (jobId left out).
PreviewBody(images) ==
    [success |-> TRUE, images |-> images, pageCount |-> Len(images)]

\* Mutant: the name goes into the header as it is.
SafeFileName_asIs(name) == name

\* pdfFileName.replace(/[^\w.\-]/g, '_')
SafeFileName(name) ==
    [i \in 1..Len(name) |->
        IF name[i] \in WordChars \cup {".", "-"} THEN name[i] ELSE "_"]

-----------------------------------------------------------------------------
(* The route handlers. Each operator is the code a handler runs between two *)
(* awaits. It takes and returns a world w: the request (q), the breaker     *)
(* (cb), memoryCache (mem) and the blob store (blob).                       *)

\* res.status(status).json({error}) and the end of the handler.
Respond(w, status, error) ==
    [w EXCEPT !.q.pc = "done", !.q.status = status, !.q.error = error]

\* Mutant: the catch block answers every error alike.
CatchBlock_noTimeoutClass(w, code, t) ==
    Respond([w EXCEPT !.cb = onFailure(w.cb, t), !.q.fail = @ + 1],
            500, "Failed")

\* The catch block of the three handlers; code is error.code.
CatchBlock(w, code, t) ==
    LET w1 == [w EXCEPT !.cb = onFailure(w.cb, t), !.q.fail = @ + 1]
    IN  IF code = "ECONNABORTED"
        THEN Respond(w1, 504, "Timeout")
        ELSE Respond(w1, 500, "Failed")

\* Mutant: the breaker is asked but the job is submitted whatever it says.
PreviewEntry_ignoresBreaker(w, body, t) ==
    LET w1 == [w EXCEPT !.q.route = "preview",
                        !.q.productId = Get(body, "productId"),
                        !.q.pageSize = Get(body, "pageSize")]
    IN  IF ~validateProductId(Get(body, "productId"))
        THEN Respond(w1, 400, "InvalidProduct")
        ELSE IF generateJobTicket(body, "Proof").threw
        THEN CatchBlock(w1, Undefined, t)
        ELSE LET cr == canRequest(w1.cb, t)
             IN  [w1 EXCEPT !.cb = cr.cb,
                            !.q.askedIn = w1.cb.state,
                            !.q.admitted = IF cr.ret THEN "yes" ELSE "no",
                            !.q.submits = @ + 1,
                            !.q.pc = "awaitSubmit"]

\* POST /api/preview up to the await of the job submission. The bodies the
\* model sends hold strings that sanitizeFormData leaves as they are.
PreviewEntry(w, body, t) ==
    LET w1 == [w EXCEPT !.q.route = "preview",
                        !.q.productId = Get(body, "productId"),
                        !.q.pageSize = Get(body, "pageSize")]
    IN  IF ~validateProductId(Get(body, "productId"))
        THEN Respond(w1, 400, "InvalidProduct")
        ELSE IF generateJobTicket(body, "Proof").threw
        THEN CatchBlock(w1, Undefined, t)
        ELSE LET cr == canRequest(w1.cb, t)
                 w2 == [w1 EXCEPT !.cb = cr.cb, !.q.askedIn = w1.cb.state]
             IN  IF ~cr.ret
                 THEN Respond([w2 EXCEPT !.q.admitted = "no"], 503, "CircuitOpen")
                 ELSE [w2 EXCEPT !.q.admitted = "yes",
                                 !.q.submits = @ + 1,
                                 !.q.pc = "awaitSubmit"]

\* Mutant: a failed submission is sent once more.
PreviewSubmitReply_retries(w, reply, t) ==
    IF reply.kind = "error"
    THEN [w EXCEPT !.q.submits = @ + 1]
    ELSE IF reply.kind = "null"
    THEN CatchBlock(w, Undefined, t)
    ELSE LET w1 == [w EXCEPT !.q.job = reply.Status]
         IN  IF reply.Status # "Completed"
             THEN [Respond(w1, 500, "JobIncomplete") EXCEPT
                      !.q.detail = << [status |-> reply.Status,
                                       statusInfo |-> reply.StatusInfo] >>]
             ELSE [w1 EXCEPT !.q.downloads = @ + 1, !.q.pc = "awaitDownload"]

\* Mutant: the output is downloaded whatever the job's status.
PreviewSubmitReply_skipsStatus(w, reply, t) ==
    IF reply.kind = "error"
    THEN CatchBlock(w, reply.code, t)
    ELSE IF reply.kind = "null"
    THEN CatchBlock(w, Undefined, t)
    ELSE [w EXCEPT !.q.job = reply.Status, !.q.downloads = @ + 1,
                   !.q.pc = "awaitDownload"]

\* POST /api/preview from the submission's outcome to the await of the
\* download. reply is the response with the job's Status, a response whose
\* data is null (kind "null": jobData.FriendlyId throws a TypeError), or the
\* error axios throws, with its code.
PreviewSubmitReply(w, reply, t) ==
    IF reply.kind = "error"
    THEN CatchBlock(w, reply.code, t)
    ELSE IF reply.kind = "null"
    THEN CatchBlock(w, Undefined, t)
    ELSE LET w1 == [w EXCEPT !.q.job = reply.Status]
         IN  IF reply.Status # "Completed"
             THEN [Respond(w1, 500, "JobIncomplete") EXCEPT
                      !.q.detail = << [status |-> reply.Status,
                                       statusInfo |-> reply.StatusInfo] >>]
             ELSE [w1 EXCEPT !.q.downloads = @ + 1, !.q.pc = "awaitDownload"]

\* POST /api/preview from the download's outcome to the response. reply is
\* the response with the archive's entry names (valid is false for bytes
\* that AdmZip rejects by throwing), or the error axios throws.
PreviewDownloadReply(w, reply, t) ==
    IF reply.kind = "error"
    THEN CatchBlock(w, reply.code, t)
    ELSE LET w1 == [w EXCEPT !.cb = onSuccess(w.cb), !.q.succ = @ + 1]
         IN  IF ~reply.valid
             THEN CatchBlock(w1, Undefined, t)
             ELSE [Respond(w1, 200, "none") EXCEPT
                      !.q.out = << PreviewBody(ExtractImages(reply.entries)) >>]

\* POST /api/download-pdf up to the await of the job submission.
PdfEntry(w, body, t) ==
    LET w1 == [w EXCEPT !.q.route = "pdf",
                        !.q.productId = Get(body, "productId"),
                        !.q.pageSize = Get(body, "pageSize")]
    IN  IF ~validateProductId(Get(body, "productId"))
        THEN Respond(w1, 400, "InvalidProduct")
        ELSE IF generateJobTicket(body, "Print").threw
        THEN CatchBlock(w1, Undefined, t)
        ELSE LET cr == canRequest(w1.cb, t)
                 w2 == [w1 EXCEPT !.cb = cr.cb, !.q.askedIn = w1.cb.state]
             IN  IF ~cr.ret
                 THEN Respond([w2 EXCEPT !.q.admitted = "no"], 503, "CircuitOpen")
                 ELSE [w2 EXCEPT !.q.admitted = "yes",
                                 !.q.submits = @ + 1,
                                 !.q.pc = "awaitSubmit"]

\* POST /api/download-pdf from the submission's outcome to the await of the
\* download.
PdfSubmitReply(w, reply, t) ==
    IF reply.kind = "error"
    THEN CatchBlock(w, reply.code, t)
    ELSE IF reply.kind = "null"
    THEN CatchBlock(w, Undefined, t)
    ELSE LET w1 == [w EXCEPT !.q.job = reply.Status]
         IN  IF reply.Status # "Completed"
             THEN [Respond(w1, 500, "JobIncomplete") EXCEPT
                      !.q.detail = << [status |-> reply.Status,
                                       statusInfo |-> reply.StatusInfo] >>]
             ELSE [w1 EXCEPT !.q.downloads = @ + 1, !.q.pc = "awaitDownload"]

\* POST /api/download-pdf from the download's outcome to the response: the
\* forEach keeps the last entry ending in .pdf.
PdfDownloadReply(w, reply, t) ==
    IF reply.kind = "error"
    THEN CatchBlock(w, reply.code, t)
    ELSE LET w1 == [w EXCEPT !.cb = onSuccess(w.cb), !.q.succ = @ + 1]
         IN  IF ~reply.valid
             THEN CatchBlock(w1, Undefined, t)
             ELSE LET pdfs == SelectSeq(reply.entries, IsPdfEntry)
                  IN  IF pdfs = << >>
                      THEN Respond(w1, 500, "NoPdf")
                      ELSE [Respond(w1, 200, "none") EXCEPT
                               !.q.out = << [file |-> SafeFileName(pdfs[Len(pdfs)]),
                                             data |-> pdfs[Len(pdfs)]] >>]


-----------------------------------------------------------------------------
(* thumbnailCache.js. getThumbnail gives << value >> for a hit and << >> for *)
(* null. memoryCache maps a productId to the data URL stored for it,        *)
(* [data |-> image]; the blob store maps a pathname to the bytes put there, *)
(* and a blob's url is [url |-> pathname]. A call of the store either       *)
(* answers (kind "ok") or throws (kind "error").                            *)

\* `thumbnails/${productId}.jpg`
getBlobPath(productId) ==
    <<"t", "h", "u", "m", "b", "n", "a", "i", "l", "s", "/">>
        \o Chars(productId) \o <<".", "j", "p", "g">>

StartsWith(name, prefix) ==
    /\ Len(name) >= Len(prefix)
    /\ SubSeq(name, 1, Len(prefix)) = prefix

\* (await list({prefix, limit: 1})).blobs: << >> or the first blob whose
\* pathname starts with prefix, the store listing by pathname: the prefix
\* itself, if it is a pathname, comes first.
listFirst(blob, prefix) ==
    LET hits == {name \in DOMAIN blob : StartsWith(name, prefix)}
    IN  IF hits = {} THEN << >>
        ELSE << CHOOSE name \in hits : \A other \in hits : Len(name) <= Len(other) >>

\* Mutant: the map is never found to hold anything.
getThumbnailMemory_miss(mem, productId) == << >>

\* Mutant: the cache never says it is durable.
isPersistent_never(useBlob) == FALSE

\* Every stored value is a data URL starting with data:image/jpeg;base64,
\* and so is truthy.
getThumbnailMemory(mem, productId) ==
    IF productId \in DOMAIN mem
    THEN << mem[productId] >>
    ELSE << >>

\* getThumbnail with the blob backend, given what list() came to: an error
\* of the store is logged and counts as a miss.
getThumbnailBlob(blob, productId, reply) ==
    LET first == listFirst(blob, getBlobPath(productId))
    IN  IF reply.kind = "ok" /\ first # << >>
        THEN << [url |-> first[1]] >>
        ELSE << >>

setThumbnailMemory(mem, productId, imageData) == MapSet(mem, productId, imageData)

\* Mutant: a pathname that is taken keeps its blob.
setThumbnailBlob_keepsFirst(blob, productId, imageData, reply) ==
    IF reply.kind = "ok"
    THEN [ret |-> << [url |-> getBlobPath(productId)] >>,
          blob |-> IF getBlobPath(productId) \in DOMAIN blob THEN blob
                   ELSE MapSet(blob, getBlobPath(productId), imageData.data)]
    ELSE [ret |-> << >>, blob |-> blob]

\* setThumbnail with the blob backend, given what put() came to: the bytes
\* decoded from the data URL are put at the product's pathname
\* (addRandomSuffix: false) and the blob's url is returned; an error of the
\* store is logged and null returned.
setThumbnailBlob(blob, productId, imageData, reply) ==
    IF reply.kind = "ok"
    THEN [ret |-> << [url |-> getBlobPath(productId)] >>,
          blob |-> MapSet(blob, getBlobPath(productId), imageData.data)]
    ELSE [ret |-> << >>, blob |-> blob]

invalidateThumbnailMemory(mem, productId) ==
    [ret |-> TRUE, mem |-> MapDelete(mem, productId)]

\* Mutant: the blob is looked up but not deleted.
invalidateThumbnailBlob_keeps(blob, productId, listReply, delReply) ==
    [ret |-> listReply.kind = "ok", blob |-> blob]

\* invalidateThumbnail with the blob backend, given what list() and del()
\* came to (del is called only for a blob that was found).
invalidateThumbnailBlob(blob, productId, listReply, delReply) ==
    LET first == listFirst(blob, getBlobPath(productId))
    IN  IF listReply.kind = "error" THEN [ret |-> FALSE, blob |-> blob]
        ELSE IF first = << >> THEN [ret |-> TRUE, blob |-> blob]
        ELSE IF delReply.kind = "error" THEN [ret |-> FALSE, blob |-> blob]
        ELSE [ret |-> TRUE, blob |-> MapDelete(blob, first[1])]

isPersistent(useBlob) == useBlob

-----------------------------------------------------------------------------
(* The thumbnail route *)

\* The default form data of a thumbnail job: productId, then every variable's
\* defaultValue || ''.
defaultFormData(product) ==
    LET names == {product.variables[i].name : i \in 1..Len(product.variables)}
        Last(k) == CHOOSE i \in 1..Len(product.variables) :
                      /\ product.variables[i].name = k
                      /\ \A j \in (i + 1)..Len(product.variables) :
                            product.variables[j].name # k
    IN  [k \in {"productId"} \cup names |->
            IF k \in names
            THEN IF Falsy(product.variables[Last(k)].defaultValue)
                 THEN ""
                 ELSE product.variables[Last(k)].defaultValue
            ELSE product.id]

\* GET /api/thumbnail/:productId from the cache's answer (cached: << >> for
\* null) to the await of the job submission. q.lookup keeps what became of
\* the lookup: hit, miss, or error for a list() that threw.
ThumbnailAfterCache(w, cached, t) ==
    IF cached # << >>
    THEN [Respond(w, 200, "none") EXCEPT
             !.q.lookup = "hit",
             !.q.out = << [thumbnail |-> cached[1], cached |-> TRUE,
                           persistent |-> isPersistent(w.useBlob)] >>]
    ELSE LET product == getProductById(w.q.productId)[1]
             formData == defaultFormData(product)
             w1 == [w EXCEPT !.q.pageSize = Get(formData, "pageSize"),
                             !.q.lookup = IF @ = "none" THEN "miss" ELSE @]
         IN  IF generateJobTicket(formData, "Proof").threw
             THEN CatchBlock(w1, Undefined, t)
             ELSE LET cr == canRequest(w1.cb, t)
                      w2 == [w1 EXCEPT !.cb = cr.cb, !.q.askedIn = w1.cb.state]
                  IN  IF ~cr.ret
                      THEN Respond([w2 EXCEPT !.q.admitted = "no"],
                                   503, "CircuitOpen")
                      ELSE [w2 EXCEPT !.q.admitted = "yes",
                                      !.q.submits = @ + 1,
                                      !.q.pc = "awaitSubmit"]

\* GET /api/thumbnail/:productId up to its first await: the list call of
\* getThumbnail with the blob backend; with the in-memory backend
\* getThumbnail awaits nothing and the handler runs on.
ThumbnailEntry(w, productId, t) ==
    LET w1 == [w EXCEPT !.q.route = "thumbnail", !.q.productId = productId]
        product == getProductById(productId)
    IN  IF product = << >>
        THEN Respond(w1, 404, "ProductNotFound")
        ELSE IF ~Falsy(product[1].thumbnail)
        THEN [Respond(w1, 200, "none") EXCEPT
                 !.q.out = << [thumbnail |-> [static |-> product[1].thumbnail],
                               cached |-> FALSE, source |-> "static"] >>]
        ELSE IF w.useBlob
        THEN [w1 EXCEPT !.q.pc = "awaitCache"]
        ELSE ThumbnailAfterCache(w1, getThumbnailMemory(w1.mem, productId), t)

\* getThumbnail with the blob backend, from the answer of list() on: a blob
\* under the product's path is a hit (its url is returned), an error of the
\* store is logged and counts as a miss.
ThumbnailCacheReply(w, reply, t) ==
    ThumbnailAfterCache([w EXCEPT !.q.lookup = IF reply.kind = "error"
                                               THEN "error" ELSE "none"],
                        getThumbnailBlob(w.blob, w.q.productId, reply), t)

\* GET /api/thumbnail/:productId from the submission's outcome to the await
\* of the download.
ThumbnailSubmitReply(w, reply, t) ==
    IF reply.kind = "error"
    THEN CatchBlock(w, reply.code, t)
    ELSE IF reply.kind = "null"
    THEN CatchBlock(w, Undefined, t)
    ELSE LET w1 == [w EXCEPT !.q.job = reply.Status]
         IN  IF reply.Status # "Completed"
             THEN [Respond(w1, 500, "JobIncomplete") EXCEPT
                      !.q.detail = << [status |-> reply.Status] >>]
             ELSE [w1 EXCEPT !.q.downloads = @ + 1, !.q.pc = "awaitDownload"]

\* GET /api/thumbnail/:productId from the download's outcome to the await of
\* setThumbnail's put (blob backend) or to the response (in-memory backend).
\* The thumbnail is the first image entry in the archive's order.
ThumbnailDownloadReply(w, reply, t) ==
    IF reply.kind = "error"
    THEN CatchBlock(w, reply.code, t)
    ELSE LET w1 == [w EXCEPT !.cb = onSuccess(w.cb), !.q.succ = @ + 1]
         IN  IF ~reply.valid
             THEN CatchBlock(w1, Undefined, t)
             ELSE LET images == SelectSeq(reply.entries, IsJpgEntry)
                      result == [thumbnail |-> [data |-> images[1]],
                                 cached |-> FALSE, persistent |-> isPersistent(w.useBlob)]
                  IN  IF images = << >>
                      THEN Respond(w1, 500, "NoImage")
                      ELSE IF w.useBlob
                      THEN [w1 EXCEPT !.q.pc = "awaitStore",
                                      !.q.out = << result >>]
                      ELSE [Respond(w1, 200, "none") EXCEPT
                               !.q.out = << result >>,
                               !.mem = setThumbnailMemory(w1.mem, w1.q.productId,
                                                          [data |-> images[1]])]

\* setThumbnail with the blob backend, from the answer of put() to the
\* handler's response: put overwrites the blob at the product's path
\* (addRandomSuffix: false); an error of the store is logged and the response
\* is sent all the same.
ThumbnailStoreReply(w, reply, t) ==
    [Respond(w, 200, "none") EXCEPT
        !.blob = setThumbnailBlob(w.blob, w.q.productId,
                                  w.q.out[1].thumbnail, reply).blob]

-----------------------------------------------------------------------------
(* Time *)

Tick ==
    /\ \E d \in TickSteps :
          /\ now + d <= MaxNow
          /\ now' = now + d
    /\ UNCHANGED <<cb, hist, req, memoryCache, blobStore, useVercelBlob,
                 fnArgs, fnResult, rateLimitStore, adminKey>>

-----------------------------------------------------------------------------
(* Spec: the server under concurrent requests *)

\* The requests that arrive: route and body (productId is the path parameter
\* of the thumbnail route).
Incoming ==
    [route : {"preview", "pdf"},
     body : { [productId |-> "brochure-a", pageSize |-> "A4"],
              [productId |-> "brochure-a", pageSize |-> "A3"],
              [productId |-> "nope", pageSize |-> "A4"] }]
    \cup
    [route : {"thumbnail"},
     body : { [productId |-> p] : p \in {"brochure-a", "flyer-b", "card-c", "nope"} }]

\* What the job submission can come to.
SubmitReplies ==
    { [kind |-> "response", Status |-> "Completed", StatusInfo |-> ""],
      [kind |-> "response", Status |-> "Failed",
       StatusInfo |-> "Plan file missing on node 3"],
      [kind |-> "null"],
      [kind |-> "error", code |-> "ECONNABORTED"],
      [kind |-> "error", code |-> "ECONNREFUSED"] }

\* What the output download can come to.
DownloadReplies ==
    { [kind |-> "response", valid |-> TRUE,
       entries |-> << <<"p", "2", ".", "j", "p", "g">>,
                      <<"o", " ", "1", ".", "p", "d", "f">>,
                      <<"p", "1", ".", "j", "p", "g">> >>],
      [kind |-> "response", valid |-> TRUE,
       entries |-> << <<"l", "o", "g", ".", "t", "x", "t">> >>],
      [kind |-> "response", valid |-> FALSE, entries |-> << >>],
      [kind |-> "error", code |-> "ECONNABORTED"],
      [kind |-> "error", code |-> "ECONNREFUSED"] }

\* What a call of the blob store can come to.
StoreReplies == { [kind |-> "ok"], [kind |-> "error"] }

\* What the remote call did, as the service side saw it.
FaultOf(reply) ==
    IF reply.kind # "error" THEN "none"
    ELSE IF reply.code = "ECONNABORTED" THEN "timeout" ELSE "transport"

World(r) ==
    [q |-> req[r], cb |-> cb, mem |-> memoryCache, blob |-> blobStore,
     useBlob |-> useVercelBlob]

Commit(r, w) ==
    /\ w.cb.failureCount <= MaxFailures
    /\ req' = [req EXCEPT ![r] = w.q]
    /\ cb' = w.cb
    /\ memoryCache' = w.mem
    /\ blobStore' = w.blob
    /\ UNCHANGED <<now, hist, useVercelBlob,
                 fnArgs, fnResult, rateLimitStore, adminKey>>

\* A request arrives and its handler runs to its first await or its response.
Arrive(r) ==
    /\ req[r].pc = "idle"
    /\ \E x \in Incoming :
          Commit(r, CASE x.route = "preview" -> PreviewEntry(World(r), x.body, now)
                      [] x.route = "pdf" -> PdfEntry(World(r), x.body, now)
                      [] x.route = "thumbnail" ->
                            ThumbnailEntry(World(r), x.body.productId, now))

\* The blob store answers getThumbnail's list().
CacheReply(r) ==
    /\ req[r].pc = "awaitCache"
    /\ \E reply \in StoreReplies :
          Commit(r, ThumbnailCacheReply(World(r), reply, now))

\* The job submission returns or throws.
SubmitReply(r) ==
    /\ req[r].pc = "awaitSubmit"
    /\ \E reply \in SubmitReplies :
          LET w == [World(r) EXCEPT !.q.fault = FaultOf(reply)]
          IN  Commit(r, CASE req[r].route = "preview" -> PreviewSubmitReply(w, reply, now)
                          [] req[r].route = "pdf" -> PdfSubmitReply(w, reply, now)
                          [] req[r].route = "thumbnail" ->
                                ThumbnailSubmitReply(w, reply, now))

\* The output download returns or throws.
DownloadReply(r) ==
    /\ req[r].pc = "awaitDownload"
    /\ \E reply \in DownloadReplies :
          LET w == [World(r) EXCEPT !.q.fault = FaultOf(reply)]
          IN  Commit(r, CASE req[r].route = "preview" -> PreviewDownloadReply(w, reply, now)
                          [] req[r].route = "pdf" -> PdfDownloadReply(w, reply, now)
                          [] req[r].route = "thumbnail" ->
                                ThumbnailDownloadReply(w, reply, now))

\* The blob store answers setThumbnail's put().
StoreReply(r) ==
    /\ req[r].pc = "awaitStore"
    /\ \E reply \in StoreReplies :
          Commit(r, ThumbnailStoreReply(World(r), reply, now))

\* The response has been delivered; the slot takes the next request.
Close(r) ==
    /\ req[r].pc = "done"
    /\ req' = [req EXCEPT ![r] = IdleRequest]
    /\ UNCHANGED <<cb, now, hist, memoryCache, blobStore, useVercelBlob,
                 fnArgs, fnResult, rateLimitStore, adminKey>>

Init ==
    /\ cb = InitBreaker
    /\ now = 1
    /\ hist = InitHist
    /\ req = [r \in Slots |-> IdleRequest]
    /\ memoryCache = << >>
    /\ blobStore = << >>
    /\ useVercelBlob \in BOOLEAN
    /\ fnArgs = << >>
    /\ fnResult = << >>
    /\ rateLimitStore = << >>
    /\ adminKey = << >>

Next ==
    \/ \E r \in Slots : Arrive(r)
    \/ \E r \in Slots : CacheReply(r)
    \/ \E r \in Slots : SubmitReply(r)
    \/ \E r \in Slots : DownloadReply(r)
    \/ \E r \in Slots : StoreReply(r)
    \/ \E r \in Slots : Close(r)
    \/ Tick

Spec == Init /\ [][Next]_vars

-----------------------------------------------------------------------------
(* Claims about the request handlers, checked under Spec *)

Done(q) == q.pc = "done"

\* The product has a size of this name.
HasSize(productId, pageSize) ==
    \E i \in 1..Len(productsConfig) :
        /\ productsConfig[i].id = productId
        /\ \E j \in 1..Len(productsConfig[i].sizes) :
              productsConfig[i].sizes[j].name = pageSize

\* The request's input is invalid: its productId is no product of the
\* catalog, or (preview and PDF) its pageSize is no size of the product.
InvalidInput(q) ==
    /\ q.route \in {"preview", "pdf", "thumbnail"}
    /\ \/ \A i \in 1..Len(productsConfig) : productsConfig[i].id # q.productId
       \/ q.route \in {"preview", "pdf"} /\ ~HasSize(q.productId, q.pageSize)

\* C1: every request that issued the job submission has called onSuccess()
\* or onFailure() by the time it has answered, whatever the remote calls
\* came to.
C1_EveryOutcomeReported ==
    \A r \in Slots :
        (Done(req[r]) /\ req[r].submits >= 1)
            => req[r].succ + req[r].fail >= 1

\* C2: a request whose input is invalid has issued no remote call and has
\* called none of canRequest(), onSuccess() and onFailure(), the only code
\* that writes the breaker's fields.
C2_InvalidInputLeavesBreaker ==
    \A r \in Slots :
        (Done(req[r]) /\ InvalidInput(req[r])) =>
            /\ req[r].submits = 0 /\ req[r].downloads = 0
            /\ req[r].admitted = "notAsked"
            /\ req[r].succ = 0 /\ req[r].fail = 0

\* C6: a request issues a remote call only after canRequest() returned true
\* to it; a request canRequest() refused is answered 503, has made no remote
\* call and has reported no outcome to the breaker.
C6_GuardedByBreaker ==
    \A r \in Slots :
        /\ (req[r].submits >= 1 \/ req[r].downloads >= 1)
              => req[r].admitted = "yes"
        /\ req[r].admitted = "no" =>
              /\ Done(req[r]) /\ req[r].status = 503
              /\ req[r].submits = 0 /\ req[r].downloads = 0
              /\ req[r].succ = 0 /\ req[r].fail = 0

\* A request was refused by the OPEN breaker while another, admitted before,
\* still has its remote call in flight.
C6_Witness ==
    \E r, o \in Slots :
        /\ req[r].admitted = "no" /\ req[r].status = 503
        /\ cb.state = "OPEN"
        /\ req[o].admitted = "yes" /\ req[o].pc = "awaitSubmit"

\* C7: a request issues at most one job submission and at most one output
\* download.
C7_NoRetry ==
    \A r \in Slots : req[r].submits <= 1 /\ req[r].downloads <= 1

\* A request whose download failed has answered without a second attempt.
C7_Witness ==
    \E r \in Slots :
        /\ Done(req[r]) /\ req[r].fault # "none"
        /\ req[r].submits = 1 /\ req[r].downloads = 1

\* C8: the steps of a request come in order. A job is submitted only with a
\* ticket built (the product and the size exist); the download is issued
\* only after the one submission came back Completed; a submission that came
\* back with another status ends the request with the job-incomplete error
\* and no download; a preview or PDF result is sent only after the download.
C8_StepsInOrder ==
    \A r \in Slots :
        /\ req[r].submits >= 1
              => /\ ~InvalidInput(req[r])
                 /\ HasSize(req[r].productId, req[r].pageSize)
        /\ req[r].downloads >= 1
              => (req[r].submits = 1 /\ req[r].job = "Completed")
        /\ req[r].job \notin {"none", "Completed"}
              => /\ Done(req[r]) /\ req[r].status = 500
                 /\ req[r].error = "JobIncomplete"
                 /\ req[r].downloads = 0
        /\ (req[r].route \in {"preview", "pdf"} /\ req[r].status = 200)
              => req[r].downloads = 1

\* A job came back with a status other than Completed.
C8_Witness ==
    \E r \in Slots :
        /\ Done(req[r]) /\ req[r].job = "Failed"
        /\ req[r].submits = 1

\* C9: a request whose remote call timed out is answered 504 with the
\* timed-out error, one whose remote call failed otherwise is answered 500
\* with the generic error, and both have called onFailure().
C9_TimeoutDistinct ==
    \A r \in Slots :
        Done(req[r]) =>
            /\ req[r].fault = "timeout"
                  => /\ req[r].status = 504 /\ req[r].error = "Timeout"
                     /\ req[r].fail >= 1
            /\ req[r].fault = "transport"
                  => /\ req[r].status = 500 /\ req[r].error = "Failed"
                     /\ req[r].fail >= 1

\* The output download of a completed job timed out.
C9_Witness ==
    \E r \in Slots :
        /\ Done(req[r]) /\ req[r].fault = "timeout"
        /\ req[r].downloads = 1 /\ req[r].status = 504

\* C10: a preview or PDF request whose input is invalid is answered with a
\* 4xx status.
C10_InvalidInputIs4xx ==
    \A r \in Slots :
        (Done(req[r]) /\ req[r].route \in {"preview", "pdf"}
                      /\ InvalidInput(req[r]))
            => req[r].status \in 400..499

-----------------------------------------------------------------------------
(* SpecBreaker: the breaker object under any sequence of calls *)

CallOnSuccess ==
    /\ cb' = onSuccess(cb)
    /\ hist' = [hist EXCEPT !.op = "onSuccess", !.pre = cb, !.ret = TRUE,
                            !.at = now, !.streak = 0]
    /\ UNCHANGED <<now, req, memoryCache, blobStore, useVercelBlob,
                 fnArgs, fnResult, rateLimitStore, adminKey>>

CallOnFailure ==
    /\ cb.failureCount < MaxFailures
    /\ cb' = onFailure(cb, now)
    /\ hist' = [hist EXCEPT !.op = "onFailure", !.pre = cb, !.ret = TRUE,
                            !.at = now, !.streak = @ + 1, !.failAt = now]
    /\ UNCHANGED <<now, req, memoryCache, blobStore, useVercelBlob,
                 fnArgs, fnResult, rateLimitStore, adminKey>>

CallCanRequest ==
    /\ cb' = canRequest(cb, now).cb
    /\ hist' = [hist EXCEPT !.op = "canRequest", !.pre = cb,
                            !.ret = canRequest(cb, now).ret, !.at = now]
    /\ UNCHANGED <<now, req, memoryCache, blobStore, useVercelBlob,
                 fnArgs, fnResult, rateLimitStore, adminKey>>

InitB ==
    /\ cb = InitBreaker
    /\ now = 1
    /\ hist = InitHist
    /\ req = [r \in Slots |-> IdleRequest]
    /\ memoryCache = << >>
    /\ blobStore = << >>
    /\ useVercelBlob = FALSE
    /\ fnArgs = << >>
    /\ fnResult = << >>
    /\ rateLimitStore = << >>
    /\ adminKey = << >>

NextB == CallOnSuccess \/ CallOnFailure \/ CallCanRequest \/ Tick

SpecBreaker == InitB /\ [][NextB]_vars

-----------------------------------------------------------------------------
(* Claims about the breaker object, checked under SpecBreaker *)

\* C3: from CLOSED with failureCount 0 (construction, or an onSuccess()),
\* fewer than failureThreshold consecutive onFailure() calls leave
\* canRequest() true; right after the failureThreshold-th one the breaker is
\* OPEN and canRequest() is false; and from then on, as long as no
\* onSuccess() is called, canRequest() is false while less than resetTimeout
\* has elapsed since the last onFailure(), and every canRequest() that
\* returned true was called at least resetTimeout after it.
C3_OpensAfterThreshold ==
    /\ hist.streak < failureThreshold => canRequest(cb, now).ret
    /\ (hist.op = "onFailure" /\ hist.streak = failureThreshold)
          => (cb.state = "OPEN" /\ ~canRequest(cb, hist.at).ret)
    /\ (hist.streak >= failureThreshold /\ now - hist.failAt < resetTimeout)
          => ~canRequest(cb, now).ret
    /\ (hist.streak >= failureThreshold /\ hist.op = "canRequest" /\ hist.ret)
          => hist.at - hist.failAt >= resetTimeout

\* The fifth consecutive failure was just recorded and canRequest(), called at
\* once, returned false.
C3_Witness ==
    /\ hist.op = "canRequest" /\ ~hist.ret
    /\ hist.streak = failureThreshold
    /\ hist.at = hist.failAt
    /\ hist.pre.state = "OPEN"

\* C4: after onSuccess(), whatever the state and failureCount it was called
\* with, failureCount is 0 and the state is CLOSED, and canRequest() is true.
C4_SuccessCloses ==
    hist.op = "onSuccess" =>
        /\ cb.failureCount = 0
        /\ cb.state = "CLOSED"
        /\ canRequest(cb, now).ret

\* onSuccess() was called on an OPEN breaker holding failureThreshold or more
\* failures.
C4_Witness ==
    /\ hist.op = "onSuccess"
    /\ hist.pre.state = "OPEN"
    /\ hist.pre.failureCount >= failureThreshold

\* C5: canRequest() called in OPEN returns true exactly when more than
\* resetTimeout has elapsed since lastFailureTime, and then the only change is
\* state = HALF_OPEN; when it returns false nothing changes. Called in CLOSED
\* or HALF_OPEN it returns true and changes nothing.
C5_CanRequestContract ==
    hist.op = "canRequest" =>
        /\ hist.pre.state = "OPEN" =>
              /\ hist.ret <=> (hist.at - hist.pre.lastFailureTime > resetTimeout)
              /\ hist.ret => cb = [hist.pre EXCEPT !.state = "HALF_OPEN"]
              /\ ~hist.ret => cb = hist.pre
        /\ hist.pre.state \in {"CLOSED", "HALF_OPEN"} =>
              /\ hist.ret
              /\ cb = hist.pre

\* canRequest() was called in OPEN more than resetTimeout after the last
\* failure, admitted the probe and left the breaker HALF_OPEN.
C5_Witness ==
    /\ hist.op = "canRequest"
    /\ hist.pre.state = "OPEN"
    /\ hist.ret
    /\ cb.state = "HALF_OPEN"

-----------------------------------------------------------------------------
(* SpecTicket: generateJobTicket applied to the form data of a request.     *)
(* The body carries a productId, maybe a pageSize, and the values of at     *)
(* most MaxFields of the variables.                                         *)

MaxFields == 2

TicketProductIds == {"brochure-a", "flyer-b", "card-c", "nope"}
TicketPageSizes == {"A4", "Letter", "A3", Undefined}
FieldNames == {"language", "eventDate", "firstName", "headline", "note",
               "DueDATE"}
FieldValues == {"", "EN", "29/01/2026", "1/2/2026", "29/01/26", "129/1/2026",
                "1/2/20260", "soon", "a\"b"}

FieldChoices ==
    UNION {[D -> FieldValues] :
             D \in {X \in SUBSET FieldNames : Cardinality(X) <= MaxFields}}

\* req.body: a property that was not sent is absent, and reads as undefined.
FormDataOf(productId, pageSize, fields) ==
    LET D == {"productId"} \cup DOMAIN fields
             \cup (IF pageSize # Undefined THEN {"pageSize"} ELSE {})
    IN  [k \in D |-> IF k = "productId" THEN productId
                     ELSE IF k = "pageSize" THEN pageSize
                     ELSE fields[k]]

InitT ==
    /\ cb = InitBreaker
    /\ now = 1
    /\ hist = InitHist
    /\ req = [r \in Slots |-> IdleRequest]
    /\ memoryCache = << >>
    /\ blobStore = << >>
    /\ useVercelBlob = FALSE
    /\ \E productId \in TicketProductIds, pageSize \in TicketPageSizes,
          fields \in FieldChoices, jobType \in {"Proof", "Print"} :
          fnArgs = [formData |-> FormDataOf(productId, pageSize, fields),
                    jobType |-> jobType]
    /\ fnResult = << >>
    /\ rateLimitStore = << >>
    /\ adminKey = << >>

CallGenerateJobTicket ==
    /\ fnResult = << >>
    /\ fnResult' = << generateJobTicket(fnArgs.formData, fnArgs.jobType) >>
    /\ UNCHANGED <<cb, now, hist, req, memoryCache, blobStore, useVercelBlob,
                   fnArgs, rateLimitStore, adminKey>>

NextT == CallGenerateJobTicket

SpecTicket == InitT /\ [][NextT]_vars

\* The product of the call in hand, when the catalog has it.
InCatalog(productId) ==
    \E i \in 1..Len(productsConfig) : productsConfig[i].id = productId

\* C11: generateJobTicket fails with product-not-found for every productId
\* the catalog lacks, with size-not-found for every pageSize the product
\* does not offer, and returns a ticket, whose Document.Id is the documentId
\* of the matching size, exactly when both exist.
C11_TicketErrors ==
    fnResult # << >> =>
        LET f == fnArgs.formData
            r == fnResult[1]
        IN  /\ ~InCatalog(f.productId) =>
                  r.threw /\ r.message = "Product not found"
            /\ (InCatalog(f.productId) /\ ~HasSize(f.productId, Get(f, "pageSize"))) =>
                  r.threw /\ r.message = "Size not found"
            /\ (InCatalog(f.productId) /\ HasSize(f.productId, Get(f, "pageSize"))) =>
                  /\ ~r.threw
                  /\ \E i \in 1..Len(productsConfig) :
                        /\ productsConfig[i].id = f.productId
                        /\ \E j \in 1..Len(productsConfig[i].sizes) :
                              /\ productsConfig[i].sizes[j].name = f.pageSize
                              /\ productsConfig[i].sizes[j].documentId =
                                    r.ticket.Document.Id

C11_Witness ==
    /\ fnResult # << >>
    /\ fnArgs.formData.productId = "brochure-a"
    /\ Get(fnArgs.formData, "pageSize") = "Letter"
    /\ ~fnResult[1].threw
    /\ fnResult[1].ticket.Document.Id = 39860

\* What the claims about a returned ticket speak of: the product of the
\* call, its variables that have a binding, the value each one resolves to
\* and the expression the ticket carries for it.
Returned == fnResult # << >> /\ ~fnResult[1].threw
TicketOf == fnResult[1].ticket
ProductOf ==
    productsConfig[CHOOSE i \in 1..Len(productsConfig) :
                      productsConfig[i].id = fnArgs.formData.productId]
HasBinding(variable) ==
    /\ variable.planObjectName \notin {Null, Undefined}
    /\ variable.planObjectType \notin {Null, Undefined}
BoundVariables == SelectSeq(ProductOf.variables, HasBinding)
ValueOf(variable) ==
    IF variable.name \in DOMAIN fnArgs.formData
    THEN fnArgs.formData[variable.name]
    ELSE IF variable.defaultValue \in {Null, Undefined} THEN ""
         ELSE variable.defaultValue
ExpressionAt(k) == TicketOf.Plan.Customizations[k].PlanObjectExpression
Hashed(value) == <<"#">> \o Chars(value) \o <<"#">>
Quoted(value) == <<"\"">> \o Chars(value) \o <<"\"">>
NameHasDate(variable) ==
    includes(toLowerCase(Chars(variable.name)), <<"d", "a", "t", "e">>)
ValueIsDate(variable) == MatchesDate(Chars(ValueOf(variable)))

\* C13 as stated: a value is a date when the variable's name contains 'date'
\* or the value matches D/M/YYYY; every date is emitted #value#, every other
\* value "value".
C13_EveryDateHashed ==
    Returned =>
        \A k \in 1..Len(BoundVariables) :
            LET v == BoundVariables[k] IN
            /\ k \in DOMAIN TicketOf.Plan.Customizations
            /\ ExpressionAt(k) =
                  IF NameHasDate(v) \/ ValueIsDate(v)
                  THEN Hashed(ValueOf(v)) ELSE Quoted(ValueOf(v))

\* C13: a value is a date when the variable's name contains 'date' or the
\* value matches D/M/YYYY; every date that is not the empty string is
\* emitted #value#, and every other value, the empty value of a date-named
\* variable included, is emitted "value" with the raw value unescaped.
C13_NonEmptyDateHashed ==
    Returned =>
        \A k \in 1..Len(BoundVariables) :
            LET v == BoundVariables[k] IN
            /\ k \in DOMAIN TicketOf.Plan.Customizations
            /\ ExpressionAt(k) =
                  IF (NameHasDate(v) \/ ValueIsDate(v)) /\ ValueOf(v) # ""
                  THEN Hashed(ValueOf(v)) ELSE Quoted(ValueOf(v))

\* eventDate = 29/01/2026 yields #29/01/2026#.
C13_Witness ==
    /\ Returned
    /\ fnArgs.formData.productId = "brochure-a"
    /\ Get(fnArgs.formData, "eventDate") = "29/01/2026"
    /\ ExpressionAt(2) =
          <<"#", "2", "9", "/", "0", "1", "/", "2", "0", "2", "6", "#">>

\* C14 as stated: #...# exactly for the variables whose name contains 'date'
\* and whose value matches D/M/YYYY; double quotes for every other value.
C14_HashedOnlyWhenBoth ==
    Returned =>
        \A k \in 1..Len(BoundVariables) :
            LET v == BoundVariables[k] IN
            /\ k \in DOMAIN TicketOf.Plan.Customizations
            /\ ExpressionAt(k) =
                  IF NameHasDate(v) /\ ValueIsDate(v)
                  THEN Hashed(ValueOf(v)) ELSE Quoted(ValueOf(v))

\* C14: the expression is wrapped in #...# for every variable whose name
\* contains 'date' and whose value matches D/M/YYYY, and also when only one
\* of the two holds and the value is not empty; it is wrapped in double
\* quotes when neither holds, and when the value is empty.
C14_HashedWhenEither ==
    Returned =>
        \A k \in 1..Len(BoundVariables) :
            LET v == BoundVariables[k] IN
            /\ k \in DOMAIN TicketOf.Plan.Customizations
            /\ (NameHasDate(v) /\ ValueIsDate(v)) =>
                  ExpressionAt(k) = Hashed(ValueOf(v))
            /\ (~NameHasDate(v) /\ ~ValueIsDate(v)) =>
                  ExpressionAt(k) = Quoted(ValueOf(v))
            /\ (NameHasDate(v) /\ ~ValueIsDate(v)) =>
                  ExpressionAt(k) = IF ValueOf(v) = "" THEN Quoted(ValueOf(v))
                                    ELSE Hashed(ValueOf(v))
            /\ (~NameHasDate(v) /\ ValueIsDate(v)) =>
                  ExpressionAt(k) = Hashed(ValueOf(v))

\* A date-named variable with a D/M/YYYY value, in upper case and by default.
C14_Witness ==
    /\ Returned
    /\ fnArgs.formData.productId = "card-c"
    /\ "DueDATE" \notin DOMAIN fnArgs.formData
    /\ ExpressionAt(2) = <<"#", "1", "/", "2", "/", "2", "0", "2", "6", "#">>

C16_OneEntryPerBoundVariable ==
    Returned =>
        /\ Len(TicketOf.Plan.Customizations) = Len(BoundVariables)
        /\ \A k \in 1..Len(BoundVariables) :
              /\ TicketOf.Plan.Customizations[k].PlanObjectName =
                    BoundVariables[k].planObjectName
              /\ TicketOf.Plan.Customizations[k].PlanObjectType =
                    BoundVariables[k].planObjectType

\* flyer-b: pageSize and note (a name without a type) were both submitted,
\* and the one entry is the headline's.
C16_Witness ==
    /\ Returned
    /\ fnArgs.formData.productId = "flyer-b"
    /\ {"pageSize", "note"} \subseteq DOMAIN fnArgs.formData
    /\ Len(ProductOf.variables) = 3
    /\ Len(TicketOf.Plan.Customizations) = 1
    /\ TicketOf.Plan.Customizations[1].PlanObjectName = "VAR_Headline"

\* C17: a Proof ticket has Priority Immediately, Format JPG, Resolution 150,
\* zero bleed and the dummy recipient source; a Print ticket has Format PDF,
\* the document's bleed, PdfSettings XMPiEQualityHigh, the PDF/X-4:2010 flag
\* and the RecipientList table; both carry the same ProductionPolicies.
C17_KindDependentParts ==
    Returned =>
        /\ TicketOf.Job.JobType = fnArgs.jobType
        /\ TicketOf.Output.ProductionPolicies =
              [MissingFonts |-> "Ignore", MissingAssets |-> "Ignore",
               MissingStyles |-> "Ignore", TextOverflow |-> "Ignore",
               FileSizeLimitReached |-> "FailJob"]
        /\ fnArgs.jobType = "Proof" =>
              /\ TicketOf.Job.Priority = "Immediately"
              /\ TicketOf.Output.Format = "JPG"
              /\ TicketOf.Output.Resolution = 150
              /\ TicketOf.Output.Bleed =
                    [UseDocumentDefinition |-> FALSE, Top |-> 0, Bottom |-> 0,
                     LeftOrInside |-> 0, RightOrOutside |-> 0]
              /\ Len(TicketOf.Data.RecipientsDataSources) = 1
              /\ TicketOf.Data.RecipientsDataSources[1].FilterType = "NoDataSource"
              /\ TicketOf.Data.RecipientsDataSources[1].Filter = "Dummy Data"
        /\ fnArgs.jobType = "Print" =>
              /\ TicketOf.Output.Format = "PDF"
              /\ TicketOf.Output.Bleed = [UseDocumentDefinition |-> TRUE]
              /\ TicketOf.Output.PdfSettings = "XMPiEQualityHigh"
              /\ TicketOf.Output.PdfStandardsCompliance = "PDFX42010"
              /\ Len(TicketOf.Data.RecipientsDataSources) = 1
              /\ TicketOf.Data.RecipientsDataSources[1].FilterType = "TableName"
              /\ TicketOf.Data.RecipientsDataSources[1].Filter = "RecipientList"

C17_Witness ==
    /\ Returned
    /\ fnArgs.jobType = "Print"
    /\ TicketOf.Output.Format = "PDF"
    /\ TicketOf.Data.RecipientsDataSources[1].Filter = "RecipientList"

-----------------------------------------------------------------------------
(* SpecExtract: the three routes' handling of the downloaded archive. The   *)
(* archive holds at most MaxEntries entries; the request is one whose job   *)
(* completed and whose download is being awaited.                           *)

MaxEntries == 3

EntryNames ==
    { <<"p", "0", "0", "1", ".", "j", "p", "g">>,
      <<"p", "0", "0", "3", ".", "j", "p", "g">>,
      <<"p", "0", "0", "2", ".", "j", "p", "g">>,
      <<"m", "a", "p", "1", "_", "p", "9", ".", "j", "p", "e", "g">>,
      <<"a", ".", "j", "p", "g">>,
      <<"x", ".", "J", "P", "G">>,
      <<"o", " ", "1", ".", "p", "d", "f">>,
      <<"b", "-", "2", ".", "p", "d", "f">>,
      <<"l", "o", "g", ".", "t", "x", "t">> }

Archives == UNION {[1..n -> EntryNames] : n \in 0..MaxEntries}

AwaitingDownload(route) ==
    [IdleRequest EXCEPT !.pc = "awaitDownload", !.route = route,
                        !.productId = "brochure-a", !.pageSize = "A4",
                        !.admitted = "yes", !.submits = 1, !.downloads = 1,
                        !.job = "Completed"]

InitX ==
    /\ cb = InitBreaker
    /\ now = 1
    /\ hist = InitHist
    /\ req = [r \in Slots |-> IdleRequest]
    /\ memoryCache = << >>
    /\ blobStore = << >>
    /\ useVercelBlob = FALSE
    /\ \E route \in {"preview", "pdf", "thumbnail"}, entries \in Archives :
          fnArgs = [route |-> route, entries |-> entries]
    /\ fnResult = << >>
    /\ rateLimitStore = << >>
    /\ adminKey = << >>

\* The download returns the archive and the handler runs to its response;
\* fnResult holds the request as the handler leaves it, memoryCache what the
\* thumbnail route stored.
Extract ==
    /\ fnResult = << >>
    /\ LET w == [q |-> AwaitingDownload(fnArgs.route), cb |-> cb,
                 mem |-> memoryCache, blob |-> blobStore,
                 useBlob |-> useVercelBlob]
           reply == [kind |-> "response", valid |-> TRUE,
                     entries |-> fnArgs.entries]
           res == CASE fnArgs.route = "preview" -> PreviewDownloadReply(w, reply, now)
                    [] fnArgs.route = "pdf" -> PdfDownloadReply(w, reply, now)
                    [] fnArgs.route = "thumbnail" ->
                          ThumbnailDownloadReply(w, reply, now)
       IN  /\ fnResult' = << res.q >>
           /\ memoryCache' = res.mem
    /\ UNCHANGED <<cb, now, hist, req, blobStore, useVercelBlob, fnArgs, rateLimitStore,
                 adminKey>>

NextX == Extract

SpecExtract == InitX /\ [][NextX]_vars

\* How often name occurs in seq.
Count(seq, name) == Cardinality({i \in DOMAIN seq : seq[i] = name})
EndsInJpg(name) ==
    \/ EndsWith(name, <<".", "j", "p", "g">>)
    \/ EndsWith(name, <<".", "j", "p", "e", "g">>)
EndsInPdf(name) == EndsWith(name, <<".", "p", "d", "f">>)
Extracted(route) == fnResult # << >> /\ fnArgs.route = route

\* C18: the preview returns exactly the archive's entries ending in .jpg or
\* .jpeg, each once, in non-decreasing order of page number (the digits
\* after the first p<digits> token, 0 when there is none), and pageCount is
\* the number of images; p001, p003, p002 come back as p001, p002, p003.
C18_ImagesByPage ==
    (Extracted("preview") /\ fnResult[1].status = 200) =>
        LET body == fnResult[1].out[1]
            images == body.images
        IN  /\ \A name \in EntryNames :
                  Count(images, name) =
                     IF EndsInJpg(name) THEN Count(fnArgs.entries, name) ELSE 0
            /\ \A i, j \in 1..Len(images) :
                  i < j => PageOf(images[i]) <= PageOf(images[j])
            /\ body.pageCount = Len(images)
            /\ fnArgs.entries = << <<"p", "0", "0", "1", ".", "j", "p", "g">>,
                                   <<"p", "0", "0", "3", ".", "j", "p", "g">>,
                                   <<"p", "0", "0", "2", ".", "j", "p", "g">> >>
                  => images = << <<"p", "0", "0", "1", ".", "j", "p", "g">>,
                                 <<"p", "0", "0", "2", ".", "j", "p", "g">>,
                                 <<"p", "0", "0", "3", ".", "j", "p", "g">> >>

C18_Witness ==
    /\ Extracted("preview")
    /\ fnArgs.entries = << <<"p", "0", "0", "1", ".", "j", "p", "g">>,
                           <<"p", "0", "0", "3", ".", "j", "p", "g">>,
                           <<"p", "0", "0", "2", ".", "j", "p", "g">> >>
    /\ fnResult[1].status = 200
    /\ fnResult[1].out[1].pageCount = 3
    /\ fnResult[1].out[1].images[3] = <<"p", "0", "0", "3", ".", "j", "p", "g">>

\* C19: when the archive of a completed preview job holds no image entry,
\* the preview fails (NoImagesInOutput); it never answers with success and
\* an empty list of images.
C19_NoImagesFails ==
    (Extracted("preview")
     /\ \A i \in 1..Len(fnArgs.entries) : ~EndsInJpg(fnArgs.entries[i])) =>
        /\ fnResult[1].status # 200
        /\ fnResult[1].error # "none"
        /\ fnResult[1].out = << >>

\* C20: the PDF route sends the bytes of the single entry ending in .pdf,
\* under a file name in which every character that is no word character,
\* dot or hyphen is replaced by '_'; with no .pdf entry it fails with the
\* no-document error and sends no bytes.
C20_SinglePdf ==
    Extracted("pdf") =>
        LET pdfAt == {i \in 1..Len(fnArgs.entries) : EndsInPdf(fnArgs.entries[i])}
        IN  /\ pdfAt = {} =>
                  /\ fnResult[1].status = 500
                  /\ fnResult[1].error = "NoPdf"
                  /\ fnResult[1].out = << >>
            /\ Cardinality(pdfAt) = 1 =>
                  LET name == fnArgs.entries[CHOOSE i \in pdfAt : TRUE]
                      sent == fnResult[1].out[1]
                  IN  /\ fnResult[1].status = 200
                      /\ sent.data = name
                      /\ Len(sent.file) = Len(name)
                      /\ \A i \in 1..Len(name) :
                            sent.file[i] =
                               IF name[i] \in WordChars \/ name[i] \in {".", "-"}
                               THEN name[i] ELSE "_"

\* o 1.pdf, the one .pdf of its archive, is sent as o_1.pdf.
C20_Witness ==
    /\ Extracted("pdf")
    /\ Count(fnArgs.entries, <<"o", " ", "1", ".", "p", "d", "f">>) = 1
    /\ Count(fnArgs.entries, <<"b", "-", "2", ".", "p", "d", "f">>) = 0
    /\ fnResult[1].status = 200
    /\ fnResult[1].out[1].file = <<"o", "_", "1", ".", "p", "d", "f">>
    /\ fnResult[1].out[1].data = <<"o", " ", "1", ".", "p", "d", "f">>

-----------------------------------------------------------------------------
(* SpecCache: the thumbnail cache module under arbitrary calls of           *)
(* setThumbnail, getThumbnail and invalidateThumbnail, one call completing  *)
(* before the next begins, with either backend. hist records the last call  *)
(* and, per product id, what the calls so far have been.                    *)

CacheIds == {"brochure-a", "card-c"}
CacheAssets == { [data |-> <<"p", "1", ".", "j", "p", "g">>],
                 [data |-> <<"p", "2", ".", "j", "p", "g">>] }

\* lastSet[p]: the asset of the last setThumbnail(p, _), if no
\* invalidateThumbnail(p) was called since; lastStored[p]: the same for the
\* calls of setThumbnail that returned a reference; invalidated[p]:
\* invalidateThumbnail(p) was called and no setThumbnail(p, _) since;
\* cleared[p]: the same for the calls that returned true; wasInvalidated
\* and wasCleared: what these were for the product of the last call before
\* that call, an invalidateThumbnail.
InitCacheHist ==
    [op |-> "none", productId |-> "none", ret |-> << >>, lookupOk |-> TRUE,
     preMem |-> << >>, preBlob |-> << >>,
     lastSet |-> [id \in CacheIds |-> << >>],
     lastStored |-> [id \in CacheIds |-> << >>],
     invalidated |-> [id \in CacheIds |-> FALSE],
     cleared |-> [id \in CacheIds |-> FALSE],
     wasInvalidated |-> FALSE, wasCleared |-> FALSE]

InitC ==
    /\ cb = InitBreaker
    /\ now = 1
    /\ hist = InitCacheHist
    /\ req = [r \in Slots |-> IdleRequest]
    /\ memoryCache = << >>
    /\ blobStore = << >>
    /\ useVercelBlob \in BOOLEAN
    /\ fnArgs = << >>
    /\ fnResult = << >>
    /\ rateLimitStore = << >>
    /\ adminKey = << >>

CallSetThumbnail ==
    \E id \in CacheIds, imageData \in CacheAssets, reply \in StoreReplies :
        LET viaBlob == setThumbnailBlob(blobStore, id, imageData, reply)
            ret == IF useVercelBlob THEN viaBlob.ret ELSE << imageData >>
        IN  /\ memoryCache' = IF useVercelBlob THEN memoryCache
                              ELSE setThumbnailMemory(memoryCache, id, imageData)
            /\ blobStore' = IF useVercelBlob THEN viaBlob.blob ELSE blobStore
            /\ hist' = [hist EXCEPT
                  !.op = "set", !.productId = id, !.ret = ret,
                  !.lookupOk = TRUE,
                  !.preMem = memoryCache, !.preBlob = blobStore,
                  !.lastSet[id] = << imageData >>,
                  !.lastStored[id] = IF ret # << >> THEN << imageData >> ELSE @,
                  !.invalidated[id] = FALSE,
                  !.cleared[id] = FALSE,
                  !.wasInvalidated = FALSE, !.wasCleared = FALSE]
            /\ UNCHANGED <<cb, now, req, useVercelBlob, fnArgs, fnResult, rateLimitStore, adminKey>>

CallGetThumbnail ==
    \E id \in CacheIds, reply \in StoreReplies :
        /\ hist' = [hist EXCEPT
              !.op = "get", !.productId = id,
              !.ret = IF useVercelBlob
                      THEN getThumbnailBlob(blobStore, id, reply)
                      ELSE getThumbnailMemory(memoryCache, id),
              !.lookupOk = (~useVercelBlob \/ reply.kind = "ok"),
              !.preMem = memoryCache, !.preBlob = blobStore,
              !.wasInvalidated = FALSE, !.wasCleared = FALSE]
        /\ UNCHANGED <<cb, now, req, memoryCache, blobStore, useVercelBlob,
                       fnArgs, fnResult, rateLimitStore, adminKey>>

CallInvalidateThumbnail ==
    \E id \in CacheIds, listReply \in StoreReplies, delReply \in StoreReplies :
        LET viaBlob == invalidateThumbnailBlob(blobStore, id, listReply, delReply)
            viaMem == invalidateThumbnailMemory(memoryCache, id)
            ret == IF useVercelBlob THEN viaBlob.ret ELSE viaMem.ret
        IN  /\ memoryCache' = IF useVercelBlob THEN memoryCache ELSE viaMem.mem
            /\ blobStore' = IF useVercelBlob THEN viaBlob.blob ELSE blobStore
            /\ hist' = [hist EXCEPT
                  !.op = "invalidate", !.productId = id, !.ret = << ret >>,
                  !.lookupOk = (~useVercelBlob \/ listReply.kind = "ok"),
                  !.preMem = memoryCache, !.preBlob = blobStore,
                  !.lastSet[id] = << >>,
                  !.lastStored[id] = << >>,
                  !.invalidated[id] = TRUE,
                  !.cleared[id] = ret,
                  !.wasInvalidated = hist.invalidated[id],
                  !.wasCleared = hist.cleared[id]]
            /\ UNCHANGED <<cb, now, req, useVercelBlob, fnArgs, fnResult, rateLimitStore, adminKey>>

NextC == CallSetThumbnail \/ CallGetThumbnail \/ CallInvalidateThumbnail

SpecCache == InitC /\ [][NextC]_vars

\* The image a value returned by getThumbnail stands for: the one in the
\* data URL, or the content of the blob at the url.
AssetOf(value) ==
    IF "data" \in DOMAIN value THEN value.data ELSE blobStore[value.url]

\* The cache held something for id before the last call.
HadEntry(id) ==
    IF useVercelBlob THEN getBlobPath(id) \in DOMAIN hist.preBlob
    ELSE id \in DOMAIN hist.preMem

-----------------------------------------------------------------------------
(* Claims about the thumbnail route and its cache, checked under Spec *)

\* The request is a thumbnail request that has been answered with the
\* product's static thumbnail.
AnsweredStatic(q) ==
    /\ Done(q) /\ q.route = "thumbnail" /\ q.status = 200
    /\ "source" \in DOMAIN q.out[1]

\* The request is a thumbnail request that has been answered from the cache.
AnsweredFromCache(q) ==
    /\ Done(q) /\ q.route = "thumbnail" /\ q.status = 200
    /\ q.out[1].cached

\* The cache holds an entry for the product (the map's key, or the blob at
\* the product's pathname).
CacheHas(productId) ==
    IF useVercelBlob
    THEN getBlobPath(productId) \in DOMAIN blobStore
    ELSE productId \in DOMAIN memoryCache

\* The step is slot r's thumbnail handler issuing the job submission.
IssuesJob(r) ==
    /\ req'[r].route = "thumbnail"
    /\ req'[r].submits > req[r].submits

\* A thumbnail answered from the cache or from the static thumbnail has built
\* no ticket, has not asked the breaker and has made no remote call.
C23_NoRemoteWork ==
    \A r \in Slots :
        (AnsweredStatic(req[r]) \/ AnsweredFromCache(req[r])) =>
            /\ req[r].admitted = "notAsked"
            /\ req[r].submits = 0 /\ req[r].downloads = 0
            /\ req[r].succ = 0 /\ req[r].fail = 0

\* The step that answers from the cache or the static thumbnail leaves the
\* breaker as it was.
C23_BreakerUntouched ==
    \A r \in Slots :
        (~Done(req[r]) /\ (AnsweredStatic(req'[r]) \/ AnsweredFromCache(req'[r])))
            => cb' = cb

\* C23 as stated: a thumbnail with a cached or static thumbnail is answered
\* without ticket, breaker or remote call, and while the cache holds an entry
\* for a product no thumbnail request for it issues a remote job.
C23_NoJobWhileCached ==
    /\ []C23_NoRemoteWork
    /\ [][C23_BreakerUntouched]_vars
    /\ [][\A r \in Slots : IssuesJob(r) => ~CacheHas(req'[r].productId)]_vars

\* C23, amended: a thumbnail with a cached or static thumbnail is answered
\* without ticket, breaker or remote call, and while the cache holds an entry
\* for a product a thumbnail request for it issues a remote job only when
\* the store's lookup threw.
C23_NoJobWhileCachedAndReadable ==
    /\ []C23_NoRemoteWork
    /\ [][C23_BreakerUntouched]_vars
    /\ [][\A r \in Slots :
            IssuesJob(r) => (~CacheHas(req'[r].productId)
                             \/ req'[r].lookup = "error")]_vars

\* A generation has stored its result in the blob store and a later request
\* for the product has been answered from it, with no remote work.
C23_Witness ==
    /\ useVercelBlob
    /\ \E r \in Slots :
          /\ AnsweredFromCache(req[r])
          /\ req[r].lookup = "hit"
          /\ req[r].submits = 0
          /\ CacheHas(req[r].productId)

\* The product's configuration has a static thumbnail.
HasStaticThumbnail(productId) ==
    ~Falsy(getProductById(productId)[1].thumbnail)

\* A successful thumbnail response took its image from the first of static
\* configuration, cache and fresh generation that had one.
ResolvedInPrecedence(q) ==
    IF HasStaticThumbnail(q.productId)
    THEN /\ q.out[1].thumbnail =
               [static |-> getProductById(q.productId)[1].thumbnail]
         /\ q.lookup = "none" /\ q.submits = 0
    ELSE IF q.lookup = "hit"
    THEN /\ q.submits = 0
         /\ IF useVercelBlob
            THEN q.out[1].thumbnail = [url |-> getBlobPath(q.productId)]
            ELSE DOMAIN q.out[1].thumbnail = {"data"}
    ELSE /\ q.lookup \in {"miss", "error"}
         /\ q.submits = 1 /\ q.downloads = 1 /\ q.job = "Completed"
         /\ DOMAIN q.out[1].thumbnail = {"data"}
         /\ IsJpgEntry(q.out[1].thumbnail.data)

\* C24 as stated: the thumbnail resolves static configuration, then cache,
\* then fresh generation, and every successful response carries one image, a
\* cache-hit flag that is true exactly when the image came from the cache,
\* and a durability flag equal to isPersistent().
C24_EveryResponseFlagged ==
    \A r \in Slots :
        (Done(req[r]) /\ req[r].route = "thumbnail" /\ req[r].status = 200) =>
            /\ ResolvedInPrecedence(req[r])
            /\ {"thumbnail", "cached", "persistent"} \subseteq DOMAIN req[r].out[1]
            /\ req[r].out[1].cached <=> (req[r].lookup = "hit")
            /\ req[r].out[1].persistent = useVercelBlob

\* C24, amended: the same precedence and cache-hit flag; the durability flag
\* is carried by the responses from the cache and from a fresh generation,
\* while the response from the static configuration carries source 'static'
\* in its place.
C24_CacheResponsesFlagged ==
    \A r \in Slots :
        (Done(req[r]) /\ req[r].route = "thumbnail" /\ req[r].status = 200) =>
            /\ ResolvedInPrecedence(req[r])
            /\ {"thumbnail", "cached"} \subseteq DOMAIN req[r].out[1]
            /\ req[r].out[1].cached <=> (req[r].lookup = "hit")
            /\ IF HasStaticThumbnail(req[r].productId)
               THEN /\ "persistent" \notin DOMAIN req[r].out[1]
                    /\ req[r].out[1].source = "static"
               ELSE /\ "persistent" \in DOMAIN req[r].out[1]
                    /\ req[r].out[1].persistent = useVercelBlob

\* A thumbnail has been answered from the durable cache, flagged as a hit and
\* as persistent.
C24_Witness ==
    \E r \in Slots :
        /\ Done(req[r]) /\ req[r].route = "thumbnail" /\ req[r].status = 200
        /\ req[r].lookup = "hit"
        /\ req[r].out[1].cached
        /\ req[r].out[1].persistent

-----------------------------------------------------------------------------
(* Claims about the thumbnail's extraction, checked under SpecExtract *)

\* C25: the asset a thumbnail generation stores for the product is, among
\* the image entries of the job output, one with the lowest page number,
\* whatever the order of the entries in the archive (stated for the
\* archives whose image entries all carry a page number).
C25_LowestPageStored ==
    (/\ Extracted("thumbnail") /\ fnResult[1].status = 200
     /\ \A i \in 1..Len(fnArgs.entries) :
           EndsInJpg(fnArgs.entries[i]) => PageOf(fnArgs.entries[i]) > 0) =>
        /\ fnResult[1].productId \in DOMAIN memoryCache
        /\ \A i \in 1..Len(fnArgs.entries) :
              EndsInJpg(fnArgs.entries[i]) =>
                 PageOf(memoryCache[fnResult[1].productId].data)
                    <= PageOf(fnArgs.entries[i])

-----------------------------------------------------------------------------
(* A further claim about the breaker object, checked under SpecBreaker *)

\* C30: in every reachable state of the breaker, under any interleaving of
\* onSuccess(), onFailure() and canRequest(), the state is CLOSED if and
\* only if failureCount < failureThreshold.
C30_ClosedIffBelowThreshold ==
    cb.state = "CLOSED" <=> cb.failureCount < failureThreshold

\* The breaker has gone back to OPEN from a failed probe and has been let to
\* HALF_OPEN again, holding more than failureThreshold failures.
C30_Witness ==
    /\ cb.state = "HALF_OPEN"
    /\ cb.failureCount > failureThreshold
    /\ hist.op = "canRequest" /\ hist.pre.state = "OPEN"

-----------------------------------------------------------------------------
(* Claims about the failure responses, checked under Spec *)

\* C28: a request fast-failed because the circuit is open is answered 503
\* with a retry hint among the fields of its body, as the 429 of the rate
\* limiter carries retryAfter.
C28_CircuitOpenCarriesHint ==
    \A r \in Slots :
        (Done(req[r]) /\ req[r].error = "CircuitOpen") =>
            /\ req[r].status = 503
            /\ req[r].detail # << >>
            /\ "retryAfter" \in DOMAIN req[r].detail[1]

-----------------------------------------------------------------------------
(* A claim about the probe of the half-open breaker, checked under Spec *)

\* The request has been admitted by the breaker and its remote call has not
\* returned yet.
InFlight(q) ==
    q.admitted = "yes" /\ q.pc \in {"awaitSubmit", "awaitDownload"}

-----------------------------------------------------------------------------
(* The rate limiter, server.js 30-79 *)

RATE_LIMIT_WINDOW_MS == 60000
RATE_LIMIT_MAX_REQUESTS == 30

\* Mutant: the seconds are rounded down.
CeilSeconds_floor(ms) == ms \div 1000

\* Math.ceil(ms / 1000) for ms >= 0.
CeilSeconds(ms) == (ms + 999) \div 1000

\* The 429 of the rate limiter.
TooManyRequests(record, t) ==
    [status |-> 429, error |-> "Too many requests",
     retryAfter |-> CeilSeconds(record.resetTime - t)]

\* Mutant: the count is compared before it is incremented.
rateLimiter_lateCheck(store, ip, t) ==
    IF ip \notin DOMAIN store \/ t > store[ip].resetTime
    THEN [store |-> MapSet(store, ip, [count |-> 1,
                                       resetTime |-> t + RATE_LIMIT_WINDOW_MS]),
          next |-> TRUE, reply |-> << >>]
    ELSE LET record == [store[ip] EXCEPT !.count = @ + 1]
         IN  IF store[ip].count > RATE_LIMIT_MAX_REQUESTS
             THEN [store |-> MapSet(store, ip, record), next |-> FALSE,
                   reply |-> << TooManyRequests(record, t) >>]
             ELSE [store |-> MapSet(store, ip, record), next |-> TRUE,
                   reply |-> << >>]

\* rateLimiter(req, res, next) for a request of client ip at time t: the
\* store it leaves, whether next() was called, and the response it sent
\* (<< >> for none).
rateLimiter(store, ip, t) ==
    IF ip \notin DOMAIN store
    THEN [store |-> MapSet(store, ip, [count |-> 1,
                                       resetTime |-> t + RATE_LIMIT_WINDOW_MS]),
          next |-> TRUE, reply |-> << >>]
    ELSE IF t > store[ip].resetTime
    THEN [store |-> MapSet(store, ip, [count |-> 1,
                                       resetTime |-> t + RATE_LIMIT_WINDOW_MS]),
          next |-> TRUE, reply |-> << >>]
    ELSE LET record == [store[ip] EXCEPT !.count = @ + 1]
         IN  IF record.count > RATE_LIMIT_MAX_REQUESTS
             THEN [store |-> MapSet(store, ip, record), next |-> FALSE,
                   reply |-> << TooManyRequests(record, t) >>]
             ELSE [store |-> MapSet(store, ip, record), next |-> TRUE,
                   reply |-> << >>]

-----------------------------------------------------------------------------
(* SpecRate: the rate limiter under the requests of two clients while time  *)
(* passes.                                                                  *)

\* A client whose record has counted this many requests sends no more in
\* the window.
MaxCount == 32
\* The second client sends no more than this many requests in a window.
MaxOther == 2

\* The instants at which requests arrive: the start, the last instant of the
\* window opened at the start, and the first instant after it.
RateInstants == {1, 1 + RATE_LIMIT_WINDOW_MS, 2 + RATE_LIMIT_WINDOW_MS}

Ips == {"10.0.0.1", "10.0.0.2"}

CountCap(ip) == IF ip = "10.0.0.1" THEN MaxCount ELSE MaxOther

\* hist in SpecRate: the last request (its client, whether next() was
\* called, the response of the limiter, its time) and, for each client, passed: how
\* many of its requests passed at each instant since now -
\* RATE_LIMIT_WINDOW_MS, opened: when its current window opened (0 before
\* its first request), seen: its requests since then.
InitRateHist ==
    [ip |-> "none", next |-> TRUE, reply |-> << >>, at |-> 0,
     passed |-> [i \in Ips |-> << >>],
     opened |-> [i \in Ips |-> 0],
     seen |-> [i \in Ips |-> 0]]

InitR ==
    /\ cb = InitBreaker
    /\ now = 1
    /\ hist = InitRateHist
    /\ req = [r \in Slots |-> IdleRequest]
    /\ memoryCache = << >>
    /\ blobStore = << >>
    /\ useVercelBlob = FALSE
    /\ fnArgs = << >>
    /\ fnResult = << >>
    /\ rateLimitStore = << >>
    /\ adminKey = << >>

\* The instants of log from t on.
Since(log, t) == [x \in {y \in DOMAIN log : y >= t} |-> log[x]]

\* A request of client ip reaches the middleware.
RateRequest(ip) ==
    /\ (ip \in DOMAIN rateLimitStore /\ now <= rateLimitStore[ip].resetTime)
          => rateLimitStore[ip].count < CountCap(ip)
    /\ LET res == rateLimiter(rateLimitStore, ip, now)
           fresh == hist.opened[ip] = 0
                    \/ now > hist.opened[ip] + RATE_LIMIT_WINDOW_MS
           log == hist.passed[ip]
       IN  /\ rateLimitStore' = res.store
           /\ hist' = [hist EXCEPT
                 !.ip = ip, !.next = res.next, !.reply = res.reply,
                 !.at = now,
                 !.passed[ip] =
                     IF res.next
                     THEN MapSet(log, now,
                                 (IF now \in DOMAIN log THEN log[now] ELSE 0) + 1)
                     ELSE log,
                 !.opened[ip] = IF fresh THEN now ELSE @,
                 !.seen[ip] = IF fresh THEN 1 ELSE @ + 1]
    /\ UNCHANGED <<cb, now, req, memoryCache, blobStore, useVercelBlob,
                   fnArgs, fnResult, adminKey>>

\* Time passes to a later instant; the instants that have left the last
\* RATE_LIMIT_WINDOW_MS ms are dropped from the log.
RateTick ==
    /\ \E t \in RateInstants :
          /\ t > now
          /\ now' = t
          /\ hist' = [hist EXCEPT
                !.passed = [i \in Ips |->
                              Since(hist.passed[i], t - RATE_LIMIT_WINDOW_MS)]]
    /\ UNCHANGED <<cb, req, memoryCache, blobStore, useVercelBlob,
                   fnArgs, fnResult, rateLimitStore, adminKey>>

NextR == (\E ip \in Ips : RateRequest(ip)) \/ RateTick

SpecRate == InitR /\ [][NextR]_vars

-----------------------------------------------------------------------------
(* Claims about the rate limiter, checked under SpecRate *)

\* How many requests the log holds at the instants in S.
RECURSIVE SumAt(_, _)
SumAt(log, S) ==
    IF S = {} THEN 0
    ELSE LET x == CHOOSE y \in S : TRUE
         IN  log[x] + SumAt(log, S \ {x})

\* How many requests of the client passed from instant t on.
PassedSince(ip, t) ==
    SumAt(hist.passed[ip], {x \in DOMAIN hist.passed[ip] : x >= t})

Min(a, b) == IF a < b THEN a ELSE b

\* The last request was refused with the 429 of the limiter.
Refused429 ==
    /\ ~hist.next
    /\ hist.reply # << >>
    /\ hist.reply[1].status = 429

-----------------------------------------------------------------------------
(* SpecVendor: one request run twice from the same state, against two        *)
(* answers of the vendor's job submission that are of the same class and     *)
(* differ in their payload.                                                  *)

\* What the vendor can put into the Status and StatusInfo of a job, and into
\* the body of an error response.
VendorStatuses == {"Completed", "Failed", "Aborted"}
VendorTexts == {"", "Plan file missing on node 3", "License expired for admin"}

VendorReplies ==
    [kind : {"response"}, Status : VendorStatuses, StatusInfo : VendorTexts]
    \cup [kind : {"error"}, code : {"ECONNABORTED", "ECONNREFUSED"},
          data : VendorTexts]
    \cup {[kind |-> "null"]}

\* The class of the submission's outcome, as the handlers tell them apart.
ClassOf(reply) ==
    IF reply.kind = "error"
    THEN IF reply.code = "ECONNABORTED" THEN "Timeout" ELSE "Failed"
    ELSE IF reply.kind = "null" THEN "Failed"
    ELSE IF reply.Status = "Completed" THEN "Completed"
    ELSE "JobIncomplete"

AwaitingSubmit(route) ==
    [IdleRequest EXCEPT !.pc = "awaitSubmit", !.route = route,
                        !.productId = "brochure-a", !.pageSize = "A4",
                        !.admitted = "yes", !.submits = 1,
                        !.askedIn = "CLOSED",
                        !.lookup = IF route = "thumbnail" THEN "miss" ELSE "none"]

InitV ==
    /\ cb = InitBreaker
    /\ now = 1
    /\ hist = InitHist
    /\ req = [r \in Slots |-> IdleRequest]
    /\ memoryCache = << >>
    /\ blobStore = << >>
    /\ useVercelBlob = FALSE
    /\ \E route \in {"preview", "pdf", "thumbnail"},
          first \in VendorReplies, second \in VendorReplies :
          /\ ClassOf(first) = ClassOf(second)
          /\ fnArgs = [route |-> route, first |-> first, second |-> second]
    /\ fnResult = << >>
    /\ rateLimitStore = << >>
    /\ adminKey = << >>

\* The route's handler from the submission's outcome on.
AfterSubmit(route, reply) ==
    LET w == [q |-> [AwaitingSubmit(route) EXCEPT !.fault = FaultOf(reply)],
              cb |-> cb, mem |-> memoryCache, blob |-> blobStore,
              useBlob |-> useVercelBlob]
    IN  (CASE route = "preview" -> PreviewSubmitReply(w, reply, now)
           [] route = "pdf" -> PdfSubmitReply(w, reply, now)
           [] route = "thumbnail" -> ThumbnailSubmitReply(w, reply, now)).q

\* The submission returns in both runs; fnResult holds the two requests as
\* the handler leaves them.
SubmitBoth ==
    /\ fnResult = << >>
    /\ fnResult' = << AfterSubmit(fnArgs.route, fnArgs.first),
                      AfterSubmit(fnArgs.route, fnArgs.second) >>
    /\ UNCHANGED <<cb, now, hist, req, memoryCache, blobStore, useVercelBlob,
                   fnArgs, rateLimitStore, adminKey>>

NextV == SubmitBoth

SpecVendor == InitV /\ [][NextV]_vars

-----------------------------------------------------------------------------
(* A claim about the failure responses, checked under SpecVendor *)

\* What the client receives: status and body.
ClientResponse(q) ==
    [status |-> q.status, error |-> q.error, detail |-> q.detail, out |-> q.out]

\* C27: the body of an error response depends only on the error class and
\* never on content supplied by the vendor: two runs that differ only in the
\* vendor's response payload give identical client responses.
C27_ResponseByClassOnly ==
    (fnResult # << >> /\ Done(fnResult[1]) /\ Done(fnResult[2])) =>
        ClientResponse(fnResult[1]) = ClientResponse(fnResult[2])

-----------------------------------------------------------------------------
(* Further claims about the breaker under concurrent requests, checked      *)
(* under Spec                                                               *)

\* C31: no request on the preview, PDF or thumbnail route calls both
\* onSuccess() and onFailure(), also when decoding the archive or extracting
\* the asset fails after the download succeeded.
C31_AtMostOneOutcome ==
    \A r \in Slots : ~(req[r].succ > 0 /\ req[r].fail > 0)

\* C32: under concurrent requests the breaker leaves OPEN only to
\* HALF_OPEN, by the timed transition of canRequest(); it never goes from
\* OPEN to CLOSED, so no request admitted before the breaker opened closes
\* it before resetTimeout has elapsed since the last failure.
C32_OpenLeavesViaHalfOpen ==
    [][cb.state = "OPEN" =>
          /\ cb'.state \in {"OPEN", "HALF_OPEN"}
          /\ cb'.state = "HALF_OPEN" => now - cb.lastFailureTime > resetTimeout]_vars

\* Slot r's request, admitted by the half-open breaker (by the canRequest()
\* that left OPEN or by a later one), is answered in this step.
ProbeCompletes(r) ==
    /\ cb.state = "HALF_OPEN"
    /\ req[r].admitted = "yes"
    /\ req[r].askedIn \in {"OPEN", "HALF_OPEN"}
    /\ ~Done(req[r]) /\ Done(req'[r])

\* C33: when the breaker is HALF_OPEN and a request admitted in that state
\* completes, the breaker leaves HALF_OPEN: to CLOSED when the request's
\* remote job succeeded, to OPEN with a fresh lastFailureTime otherwise.
C33_ProbeDecides ==
    [][\A r \in Slots :
          ProbeCompletes(r) =>
             IF req'[r].job = "Completed" /\ req'[r].succ > 0
             THEN cb'.state = "CLOSED"
             ELSE cb'.state = "OPEN" /\ cb'.lastFailureTime = now]_vars

-----------------------------------------------------------------------------
(* Further claims about the rate limiter, checked under SpecRate *)

\* C34: the limiter keeps a fixed window per client: the first request of a
\* client, or its first one after the window expired, is admitted and
\* starts a window of RATE_LIMIT_WINDOW_MS with count 1; within the window
\* exactly the first RATE_LIMIT_MAX_REQUESTS requests are admitted and every
\* later one is answered 429 with retryAfter the seconds to resetTime,
\* rounded up.
C34_FixedWindow ==
    /\ \A ip \in Ips :
          IF hist.opened[ip] = 0
          THEN ip \notin DOMAIN rateLimitStore
          ELSE /\ ip \in DOMAIN rateLimitStore
               /\ rateLimitStore[ip].resetTime
                     = hist.opened[ip] + RATE_LIMIT_WINDOW_MS
               /\ rateLimitStore[ip].count = hist.seen[ip]
    /\ hist.ip # "none" =>
          LET record == rateLimitStore[hist.ip]
              left == record.resetTime - hist.at
          IN  /\ record.count = 1 =>
                    /\ hist.next
                    /\ record.resetTime = hist.at + RATE_LIMIT_WINDOW_MS
              /\ hist.next <=> record.count <= RATE_LIMIT_MAX_REQUESTS
              /\ ~hist.next =>
                    /\ Refused429
                    /\ left >= 0
                    /\ hist.reply[1].retryAfter * 1000 >= left
                    /\ (hist.reply[1].retryAfter - 1) * 1000 < left

\* A client's window opened at the last instant of the first minute, and its
\* 31st request, 1 ms later, has been refused with retryAfter 60 for the
\* 59999 ms left.
C34_Witness ==
    /\ hist.ip = "10.0.0.1" /\ Refused429
    /\ hist.opened["10.0.0.1"] = 1 + RATE_LIMIT_WINDOW_MS
    /\ hist.at = 2 + RATE_LIMIT_WINDOW_MS
    /\ rateLimitStore["10.0.0.1"].count = RATE_LIMIT_MAX_REQUESTS + 1
    /\ hist.reply[1].retryAfter = 60

-----------------------------------------------------------------------------
(* SpecCleanup: the rate limiter with its periodic cleanup, next to a run    *)
(* of the same requests without cleanup.                                     *)

\* Mutant: a record is purged from the last instant of its window on.
cleanup_atReset(store, t) ==
    [ip \in {i \in DOMAIN store : ~(t >= store[i].resetTime)} |-> store[ip]]

\* The callback of setInterval at time t: the records whose window has
\* expired are deleted.
cleanup(store, t) ==
    [ip \in {i \in DOMAIN store : ~(t > store[i].resetTime)} |-> store[ip]]

\* hist in SpecCleanup: that of SpecRate and, besides, the store, the
\* decision and the response of the run without cleanup (shadow), and
\* whether the cleanup has run. The timer fires every 5 minutes, so once at
\* most in the minute the model covers; only differences of times matter to
\* the limiter, so the instant at which it fires is any of the instants.
InitCleanupHist ==
    [ip |-> "none", next |-> TRUE, reply |-> << >>, at |-> 0,
     shadow |-> << >>, shadowNext |-> TRUE, shadowReply |-> << >>,
     swept |-> FALSE, purged |-> {}]

InitK ==
    /\ cb = InitBreaker
    /\ now = 1
    /\ hist = InitCleanupHist
    /\ req = [r \in Slots |-> IdleRequest]
    /\ memoryCache = << >>
    /\ blobStore = << >>
    /\ useVercelBlob = FALSE
    /\ fnArgs = << >>
    /\ fnResult = << >>
    /\ rateLimitStore = << >>
    /\ adminKey = << >>

\* A request of client ip reaches the middleware, in both runs.
CleanupRequest(ip) ==
    /\ (ip \in DOMAIN hist.shadow /\ now <= hist.shadow[ip].resetTime)
          => hist.shadow[ip].count < CountCap(ip)
    /\ LET res == rateLimiter(rateLimitStore, ip, now)
           ref == rateLimiter(hist.shadow, ip, now)
       IN  /\ rateLimitStore' = res.store
           /\ hist' = [hist EXCEPT
                 !.ip = ip, !.next = res.next, !.reply = res.reply,
                 !.at = now,
                 !.shadow = ref.store, !.shadowNext = ref.next,
                 !.shadowReply = ref.reply]
    /\ UNCHANGED <<cb, now, req, memoryCache, blobStore, useVercelBlob,
                   fnArgs, fnResult, adminKey>>

\* The timer fires.
RateCleanup ==
    /\ ~hist.swept
    /\ rateLimitStore' = cleanup(rateLimitStore, now)
    /\ hist' = [hist EXCEPT
          !.swept = TRUE,
          !.purged = DOMAIN rateLimitStore \ DOMAIN cleanup(rateLimitStore, now)]
    /\ UNCHANGED <<cb, now, req, memoryCache, blobStore, useVercelBlob,
                   fnArgs, fnResult, adminKey>>

\* Time passes to a later instant.
CleanupTick ==
    /\ \E t \in RateInstants : t > now /\ now' = t
    /\ UNCHANGED <<cb, hist, req, memoryCache, blobStore, useVercelBlob,
                   fnArgs, fnResult, rateLimitStore, adminKey>>

NextK == (\E ip \in Ips : CleanupRequest(ip)) \/ RateCleanup \/ CleanupTick

SpecCleanup == InitK /\ [][NextK]_vars

-----------------------------------------------------------------------------
(* A claim about the cleanup, checked under SpecCleanup *)

\* C40: the cleanup deletes only records whose window has expired, and no
\* request can tell: each gets the decision and the retryAfter it gets in
\* the run without cleanup.
C40_CleanupUnobservable ==
    /\ \A ip \in DOMAIN hist.shadow :
          IF ip \in DOMAIN rateLimitStore
          THEN rateLimitStore[ip] = hist.shadow[ip]
          ELSE now > hist.shadow[ip].resetTime
    /\ DOMAIN rateLimitStore \subseteq DOMAIN hist.shadow
    /\ hist.next = hist.shadowNext
    /\ hist.reply = hist.shadowReply

\* The cleanup has purged a client's record, and the client has since sent
\* enough requests to be refused.
C40_Witness ==
    /\ "10.0.0.1" \in hist.purged
    /\ hist.ip = "10.0.0.1"
    /\ ~hist.next
    /\ hist.reply # << >> /\ hist.reply[1].status = 429
    /\ hist.shadowReply = hist.reply

-----------------------------------------------------------------------------
(* SpecKeys: the thumbnail cache under calls for two product ids of which   *)
(* one continues the other's blob pathname.                                 *)

KeyIds == {"card-c", "card-c.jpg"}

\* hist in SpecKeys: the last call and the cache before it.
InitKeysHist ==
    [op |-> "none", productId |-> "none", ret |-> << >>,
     preMem |-> << >>, preBlob |-> << >>]

InitY ==
    /\ cb = InitBreaker
    /\ now = 1
    /\ hist = InitKeysHist
    /\ req = [r \in Slots |-> IdleRequest]
    /\ memoryCache = << >>
    /\ blobStore = << >>
    /\ useVercelBlob \in BOOLEAN
    /\ fnArgs = << >>
    /\ fnResult = << >>
    /\ rateLimitStore = << >>
    /\ adminKey = << >>

KeysSetThumbnail ==
    \E id \in KeyIds, imageData \in CacheAssets, reply \in StoreReplies :
        LET viaBlob == setThumbnailBlob(blobStore, id, imageData, reply)
        IN  /\ memoryCache' = IF useVercelBlob THEN memoryCache
                              ELSE setThumbnailMemory(memoryCache, id, imageData)
            /\ blobStore' = IF useVercelBlob THEN viaBlob.blob ELSE blobStore
            /\ hist' = [op |-> "set", productId |-> id,
                        ret |-> IF useVercelBlob THEN viaBlob.ret
                                ELSE << imageData >>,
                        preMem |-> memoryCache, preBlob |-> blobStore]
            /\ UNCHANGED <<cb, now, req, useVercelBlob, fnArgs, fnResult,
                           rateLimitStore, adminKey>>

KeysGetThumbnail ==
    \E id \in KeyIds, reply \in StoreReplies :
        /\ hist' = [op |-> "get", productId |-> id,
                    ret |-> IF useVercelBlob
                            THEN getThumbnailBlob(blobStore, id, reply)
                            ELSE getThumbnailMemory(memoryCache, id),
                    preMem |-> memoryCache, preBlob |-> blobStore]
        /\ UNCHANGED <<cb, now, req, memoryCache, blobStore, useVercelBlob,
                       fnArgs, fnResult, rateLimitStore, adminKey>>

KeysInvalidateThumbnail ==
    \E id \in KeyIds, listReply \in StoreReplies, delReply \in StoreReplies :
        LET viaBlob == invalidateThumbnailBlob(blobStore, id, listReply, delReply)
            viaMem == invalidateThumbnailMemory(memoryCache, id)
        IN  /\ memoryCache' = IF useVercelBlob THEN memoryCache ELSE viaMem.mem
            /\ blobStore' = IF useVercelBlob THEN viaBlob.blob ELSE blobStore
            /\ hist' = [op |-> "invalidate", productId |-> id,
                        ret |-> << IF useVercelBlob THEN viaBlob.ret
                                   ELSE viaMem.ret >>,
                        preMem |-> memoryCache, preBlob |-> blobStore]
            /\ UNCHANGED <<cb, now, req, useVercelBlob, fnArgs, fnResult,
                           rateLimitStore, adminKey>>

NextY == KeysSetThumbnail \/ KeysGetThumbnail \/ KeysInvalidateThumbnail

SpecKeys == InitY /\ [][NextY]_vars

-----------------------------------------------------------------------------
(* A claim about the cache's keys, checked under SpecKeys *)

\* What getThumbnail(id) returns from the cache (mem, blob) when the store
\* answers: << >> for null, else the returned value and the image it
\* stands for.
LookupIn(mem, blob, id) ==
    LET got == IF useVercelBlob
               THEN getThumbnailBlob(blob, id, [kind |-> "ok"])
               ELSE getThumbnailMemory(mem, id)
    IN  IF got = << >> THEN << >>
        ELSE IF useVercelBlob
        THEN << [value |-> got[1], image |-> blob[got[1].url]] >>
        ELSE << [value |-> got[1], image |-> got[1].data] >>

\* C35: for distinct product ids p and q, setThumbnail(p, _) and
\* invalidateThumbnail(p) never change what getThumbnail(q) returns, and
\* getThumbnail(p) never returns an asset stored for q, with either backend.
C35_KeysIsolated ==
    /\ hist.op \in {"set", "invalidate"} =>
          \A q \in KeyIds \ {hist.productId} :
              LookupIn(memoryCache, blobStore, q)
                 = LookupIn(hist.preMem, hist.preBlob, q)
    /\ (hist.op = "get" /\ hist.ret # << >> /\ useVercelBlob) =>
          hist.ret[1].url = getBlobPath(hist.productId)

-----------------------------------------------------------------------------
(* DELETE /api/thumbnail/:productId, server.js 728-740 *)

\* `Bearer ${adminKey}`: an undefined key is spelled out as "undefined".
BearerOf(key) ==
    <<"B", "e", "a", "r", "e", "r", " ">>
       \o (IF key = << >>
           THEN <<"u", "n", "d", "e", "f", "i", "n", "e", "d">>
           ELSE key[1])

\* !x for an optional string: undefined and the empty string are falsy.
FalsyString(x) == x = << >> \/ x[1] = << >>

\* Mutant: the handler does not look whether a key is configured.
DeleteEntry_noKeyCheck(w, productId, key, authHeader) ==
    LET w1 == [w EXCEPT !.q.route = "delete", !.q.productId = productId]
    IN  IF FalsyString(authHeader) \/ authHeader[1] # BearerOf(key)
        THEN Respond(w1, 401, "Unauthorized")
        ELSE IF w.useBlob
        THEN [w1 EXCEPT !.q.pc = "awaitInvalidate"]
        ELSE [Respond(w1, 200, "none") EXCEPT
                 !.mem = invalidateThumbnailMemory(w1.mem, productId).mem]

\* DELETE /api/thumbnail/:productId up to its first await (the list call of
\* invalidateThumbnail with the blob backend) or its response.
DeleteEntry(w, productId, key, authHeader) ==
    LET w1 == [w EXCEPT !.q.route = "delete", !.q.productId = productId]
    IN  IF \/ FalsyString(key)
           \/ FalsyString(authHeader)
           \/ authHeader[1] # BearerOf(key)
        THEN Respond(w1, 401, "Unauthorized")
        ELSE IF w.useBlob
        THEN [w1 EXCEPT !.q.pc = "awaitInvalidate"]
        ELSE [Respond(w1, 200, "none") EXCEPT
                 !.mem = invalidateThumbnailMemory(w1.mem, productId).mem]

\* invalidateThumbnail with the blob backend, from the answers of list() and
\* del() to the handler's response, which does not look at what
\* invalidateThumbnail returned.
DeleteInvalidateReply(w, listReply, delReply) ==
    [Respond(w, 200, "none") EXCEPT
        !.blob = invalidateThumbnailBlob(w.blob, w.q.productId,
                                         listReply, delReply).blob]

-----------------------------------------------------------------------------
(* SpecInvalidate: thumbnail requests and DELETE requests for one product   *)
(* on two connections.                                                      *)

\* The values of ADMIN_API_KEY: not set, empty, set.
AdminKeys == { << >>, << << >> >>, << <<"k", "1">> >> }

\* The Authorization headers a caller sends: none, empty, the key alone,
\* Bearer with the key, with another key, with no key, and with the word a
\* missing key is spelled as.
AuthHeaders ==
    { << >>, << << >> >>, << <<"k", "1">> >>,
      << BearerOf(<< <<"k", "1">> >>) >>,
      << BearerOf(<< <<"k", "2">> >>) >>,
      << BearerOf(<< << >> >>) >>,
      << BearerOf(<< >>) >> }

InvalidatedId == "brochure-a"

\* hist in SpecInvalidate: auth[r]: the Authorization header of slot r's
\* request; acked: a DELETE has been acknowledged and no thumbnail request
\* that started after it has stored a thumbnail since; stale: the slots
\* whose thumbnail request was in progress when a DELETE was acknowledged.
InitInvalidateHist ==
    [auth |-> [r \in Slots |-> << >>], acked |-> FALSE, stale |-> {}]

InitI ==
    /\ cb = InitBreaker
    /\ now = 1
    /\ hist = InitInvalidateHist
    /\ req = [r \in Slots |-> IdleRequest]
    /\ memoryCache = << >>
    /\ blobStore = << >>
    /\ useVercelBlob \in BOOLEAN
    /\ fnArgs = << >>
    /\ fnResult = << >>
    /\ rateLimitStore = << >>
    /\ adminKey \in AdminKeys

InProgress(q) == q.pc \notin {"idle", "done"}

\* Slot r's handler has run from one await to the next and left the world w.
CommitI(r, w, header) ==
    LET acks == w.q.route = "delete" /\ Done(w.q) /\ w.q.status = 200
        stores == w.q.route = "thumbnail"
                  /\ (w.mem # memoryCache \/ w.blob # blobStore)
    IN  /\ w.cb.failureCount <= MaxFailures
        /\ req' = [req EXCEPT ![r] = w.q]
        /\ cb' = w.cb
        /\ memoryCache' = w.mem
        /\ blobStore' = w.blob
        /\ hist' = [hist EXCEPT
              !.auth[r] = header,
              !.acked = IF acks THEN TRUE
                        ELSE IF stores /\ r \notin hist.stale THEN FALSE
                        ELSE @,
              !.stale = IF acks
                        THEN @ \cup {s \in Slots \ {r} :
                                        /\ req[s].route = "thumbnail"
                                        /\ InProgress(req[s])}
                        ELSE @]
        /\ UNCHANGED <<now, useVercelBlob, fnArgs, fnResult, rateLimitStore,
                       adminKey>>

\* A thumbnail request or a DELETE request arrives.
ArriveI(r) ==
    /\ req[r].pc = "idle"
    /\ \/ CommitI(r, ThumbnailEntry(World(r), InvalidatedId, now), << >>)
       \/ \E header \in AuthHeaders :
             CommitI(r, DeleteEntry(World(r), InvalidatedId, adminKey, header),
                     header)

CacheReplyI(r) ==
    /\ req[r].pc = "awaitCache"
    /\ \E reply \in StoreReplies :
          CommitI(r, ThumbnailCacheReply(World(r), reply, now), hist.auth[r])

SubmitReplyI(r) ==
    /\ req[r].pc = "awaitSubmit"
    /\ \E reply \in SubmitReplies :
          CommitI(r, ThumbnailSubmitReply(
                        [World(r) EXCEPT !.q.fault = FaultOf(reply)], reply, now),
                  hist.auth[r])

DownloadReplyI(r) ==
    /\ req[r].pc = "awaitDownload"
    /\ \E reply \in DownloadReplies :
          CommitI(r, ThumbnailDownloadReply(
                        [World(r) EXCEPT !.q.fault = FaultOf(reply)], reply, now),
                  hist.auth[r])

StoreReplyI(r) ==
    /\ req[r].pc = "awaitStore"
    /\ \E reply \in StoreReplies :
          CommitI(r, ThumbnailStoreReply(World(r), reply, now), hist.auth[r])

\* The blob store answers invalidateThumbnail's list() and del().
InvalidateReplyI(r) ==
    /\ req[r].pc = "awaitInvalidate"
    /\ \E listReply \in StoreReplies, delReply \in StoreReplies :
          CommitI(r, DeleteInvalidateReply(World(r), listReply, delReply),
                  hist.auth[r])

CloseI(r) ==
    /\ req[r].pc = "done"
    /\ req' = [req EXCEPT ![r] = IdleRequest]
    /\ hist' = [hist EXCEPT !.auth[r] = << >>, !.stale = @ \ {r}]
    /\ UNCHANGED <<cb, now, memoryCache, blobStore, useVercelBlob,
                   fnArgs, fnResult, rateLimitStore, adminKey>>

NextI ==
    \/ \E r \in Slots : ArriveI(r)
    \/ \E r \in Slots : CacheReplyI(r)
    \/ \E r \in Slots : SubmitReplyI(r)
    \/ \E r \in Slots : DownloadReplyI(r)
    \/ \E r \in Slots : StoreReplyI(r)
    \/ \E r \in Slots : InvalidateReplyI(r)
    \/ \E r \in Slots : CloseI(r)

SpecInvalidate == InitI /\ [][NextI]_vars

-----------------------------------------------------------------------------
(* Claims about invalidation, checked under SpecInvalidate *)

\* C36: once a DELETE for the product has been acknowledged, the cache holds
\* nothing for it until a thumbnail request that started after the
\* invalidation stores a thumbnail: a generation that was in progress at the
\* invalidation does not put its result back.
C36_InvalidationSticks ==
    hist.acked => ~CacheHas(InvalidatedId)

\* The caller of slot r's request is authorized: a key is configured and
\* the Authorization header is 'Bearer ' followed by the key.
Authorized(header) ==
    /\ adminKey # << >> /\ adminKey[1] # << >>
    /\ header # << >>
    /\ header[1] = <<"B", "e", "a", "r", "e", "r", " ">> \o adminKey[1]

\* Slot r's DELETE request, by a caller that is not authorized, arrives.
UnauthorizedDelete(r) ==
    /\ req[r].pc = "idle"
    /\ req'[r].route = "delete"
    /\ ~Authorized(hist'.auth[r])

\* C37: a DELETE whose caller is not authorized (no key configured, no
\* Authorization header, or a header other than 'Bearer <key>') is answered
\* 401 and leaves the thumbnail cache unchanged.
C37_UnauthorizedChangesNothing ==
    /\ [](\A r \in Slots :
            (req[r].route = "delete" /\ ~Authorized(hist.auth[r])) =>
                (Done(req[r]) /\ req[r].status = 401))
    /\ [][\A r \in Slots :
            UnauthorizedDelete(r) =>
               /\ memoryCache' = memoryCache
               /\ blobStore' = blobStore]_vars

\* With no key configured, a DELETE carrying 'Bearer undefined' has been
\* answered 401 while the cache holds the product's thumbnail.
C37_Witness ==
    /\ adminKey = << >>
    /\ CacheHas(InvalidatedId)
    /\ \E r \in Slots :
          /\ req[r].route = "delete" /\ Done(req[r]) /\ req[r].status = 401
          /\ hist.auth[r] = << BearerOf(<< >>) >>

-----------------------------------------------------------------------------
(* sanitizeInput and sanitizeFormData, server.js 84-102, and the two routes *)
(* that hand a sanitized body to generateJobTicket, server.js 416-425 and   *)
(* 509-518.                                                                 *)

\* A value of a parsed JSON body: its typeof, and the text a template string
\* or a regular expression makes of it. ["soon"] and "soon" both read soon,
\* the first with typeof object; 7 reads 7 with typeof number.
JsString(text) == [type |-> "string", text |-> text]
JsArrayOf(text) == [type |-> "object", text |-> text]
JsNumber(text) == [type |-> "number", text |-> text]

\* sanitizeHtml(value, {allowedTags: [], allowedAttributes: {}}) on texts
\* that hold letters, blanks and b tags: every tag from its < to its > is
\* dropped and the text between the tags is kept.
RECURSIVE sanitizeHtml(_)
sanitizeHtml(chars) ==
    LET opens == {i \in 1..Len(chars) : chars[i] = "<"}
    IN  IF opens = {} THEN chars
        ELSE LET open == CHOOSE i \in opens : \A j \in opens : i <= j
                 closes == {i \in open..Len(chars) : chars[i] = ">"}
             IN  IF closes = {} THEN SubSeq(chars, 1, open - 1)
                 ELSE SubSeq(chars, 1, open - 1) \o
                      sanitizeHtml(SubSeq(chars,
                          (CHOOSE i \in closes : \A j \in closes : i <= j) + 1,
                          Len(chars)))

\* String.prototype.trim, for blanks.
RECURSIVE trim(_)
trim(chars) ==
    IF chars = << >> THEN << >>
    ELSE IF chars[1] = " " THEN trim(Tail(chars))
    ELSE IF chars[Len(chars)] = " " THEN trim(SubSeq(chars, 1, Len(chars) - 1))
    ELSE chars

\* chars.substring(0, end)
substring(chars, end) ==
    SubSeq(chars, 1, IF end < Len(chars) THEN end ELSE Len(chars))

\* The texts sanitizeInput returns here, and the string of a run of
\* characters.
SanitizedTexts ==
    {"", "EN", "A4", "Letter", "soon", "7", "1/2/2026", LongTextCut,
     "brochure-a", "flyer-b", "card-c", "nope"}
StringOf(chars) == CHOOSE s \in SanitizedTexts : Chars(s) = chars

\* if (typeof value !== 'string') return value;
\* return sanitizeHtml(value, ...).trim().substring(0, 500);
sanitizeInput(value) ==
    IF value.type # "string" THEN value
    ELSE JsString(StringOf(substring(trim(sanitizeHtml(Chars(value.text))),
                                     MaxInputLength)))

\* for (const [key, value] of Object.entries(data))
\*     sanitized[key] = sanitizeInput(value);
sanitizeFormData(data) == [key \in DOMAIN data |-> sanitizeInput(data[key])]

\* What generateJobTicket reads of the sanitized body. productId and
\* pageSize are compared with ===, which no array and no number passes; a
\* field's value goes through value && regex.test(value) and a template
\* string, which read the text of a value that is not empty.
TicketInput(formData) ==
    [key \in DOMAIN formData |->
        IF key \in {"productId", "pageSize"} /\ formData[key].type # "string"
        THEN Undefined
        ELSE formData[key].text]

\* The handler from the parsed body to the ticket: sanitizeFormData,
\* validateProductId, generateJobTicket.
SanitizeAndBuild(body, jobType) ==
    LET formData == sanitizeFormData(body)
    IN  IF \/ formData.productId.type # "string"
           \/ ~validateProductId(formData.productId.text)
        THEN [threw |-> TRUE, message |-> "Invalid product ID",
              formData |-> formData]
        ELSE LET built == generateJobTicket(TicketInput(formData), jobType)
             IN  IF built.threw
                 THEN [threw |-> TRUE, message |-> built.message,
                       formData |-> formData]
                 ELSE [threw |-> FALSE, ticket |-> built.ticket,
                       formData |-> formData]

-----------------------------------------------------------------------------
(* SpecSanitize: one preview or PDF request whose body carries productId,   *)
(* pageSize and one field; the field's value is a string, an array of one   *)
(* string or a number.                                                      *)

SubmittedTexts == {"soon", "<b>soon</b>", " soon ", "1/2/2026", LongText}
SubmittedValues ==
    {JsString(t) : t \in SubmittedTexts}
        \cup {JsArrayOf(t) : t \in SubmittedTexts} \cup {JsNumber("7")}

InitSanitizeHist == [route |-> "none"]

InitZ ==
    /\ cb = InitBreaker
    /\ now = 1
    /\ hist = InitSanitizeHist
    /\ req = [r \in Slots |-> IdleRequest]
    /\ memoryCache = << >>
    /\ blobStore = << >>
    /\ useVercelBlob = FALSE
    /\ \E productId \in TicketProductIds, pageSize \in {"A4", "Letter"},
          name \in FieldNames, value \in SubmittedValues :
          fnArgs = [body |-> [key \in {"productId", "pageSize", name} |->
                                 IF key = "productId" THEN JsString(productId)
                                 ELSE IF key = "pageSize" THEN JsString(pageSize)
                                 ELSE value]]
    /\ fnResult = << >>
    /\ rateLimitStore = << >>
    /\ adminKey = << >>

\* POST /api/preview: the ticket of a Proof job.
PreviewSanitized ==
    /\ fnResult = << >>
    /\ fnResult' = << SanitizeAndBuild(fnArgs.body, "Proof") >>
    /\ hist' = [hist EXCEPT !.route = "preview"]
    /\ UNCHANGED <<cb, now, req, memoryCache, blobStore, useVercelBlob,
                   fnArgs, rateLimitStore, adminKey>>

\* POST /api/download-pdf: the ticket of a Print job.
PdfSanitized ==
    /\ fnResult = << >>
    /\ fnResult' = << SanitizeAndBuild(fnArgs.body, "Print") >>
    /\ hist' = [hist EXCEPT !.route = "pdf"]
    /\ UNCHANGED <<cb, now, req, memoryCache, blobStore, useVercelBlob,
                   fnArgs, rateLimitStore, adminKey>>

NextZ == PreviewSanitized \/ PdfSanitized

SpecSanitize == InitZ /\ [][NextZ]_vars

\* A run of characters holds a tag: a < with a > after it.
HasTag(chars) ==
    \E i \in 1..Len(chars), j \in 1..Len(chars) :
        i < j /\ chars[i] = "<" /\ chars[j] = ">"

\* The value an expression embeds: the expression without the two quotes or
\* the two # around it.
Embedded(expression) == SubSeq(expression, 2, Len(expression) - 1)

\* C38: for every field of a preview or PDF request body, the value that
\* generateJobTicket embeds in a customization expression has had its HTML
\* tags stripped and is at most 500 characters long, whatever the type and
\* the content of the submitted value.
C38_EmbeddedValuesSanitized ==
    (fnResult # << >> /\ ~fnResult[1].threw) =>
        \A k \in DOMAIN fnResult[1].ticket.Plan.Customizations :
            LET value == Embedded(fnResult[1].ticket.Plan.Customizations[k]
                                     .PlanObjectExpression)
            IN  ~HasTag(value) /\ Len(value) <= MaxInputLength

\* The same for the bodies whose values are all strings, which is what the
\* typeof test of sanitizeInput lets through to sanitizeHtml.
C38_StringValuesSanitized ==
    (/\ fnResult # << >> /\ ~fnResult[1].threw
     /\ \A key \in DOMAIN fnArgs.body : fnArgs.body[key].type = "string") =>
        \A k \in DOMAIN fnResult[1].ticket.Plan.Customizations :
            LET value == Embedded(fnResult[1].ticket.Plan.Customizations[k]
                                     .PlanObjectExpression)
            IN  ~HasTag(value) /\ Len(value) <= MaxInputLength

-----------------------------------------------------------------------------
(* The browser client, public/app.js: selectProduct 262-288, getFormData    *)
(* 409-420, showLoading, showError and showPreview 425-457, generatePreview *)
(* 711-753, setupAutoRefresh 809-827. The client's variables are the fields *)
(* of one record; a preview request that was sent and not yet answered is   *)
(* an element of pending, and the answers come back in any order.           *)

MaxIssued == 3

ClientProducts == {"brochure-a", "flyer-b"}
ClientValues == {"EN", "soon"}

\* The state after the script has loaded and /api/products has answered with
\* more than one product: nothing is selected, no images. issued, latest and
\* latestReply record the requests for the claims.
InitClient ==
    [currentProduct |-> Null, language |-> "EN", currentImages |-> << >>,
     shown |-> "initial", refreshDisabled |-> FALSE, debounceTimer |-> FALSE,
     orphanTimers |-> 0, pending |-> {}, issued |-> 0, latest |-> << >>,
     latestReply |-> "none"]

\* { productId: currentProduct.id, ...the form's entries }
getFormData(c) == [productId |-> c.currentProduct, language |-> c.language]

\* data.images of a successful answer: the pages the server rendered from
\* the body it was sent.
ImagesOf(formData) == << formData >>

\* generatePreview up to its await of fetch: showLoading, getFormData, and
\* the request on its way.
generatePreview(c) ==
    LET request == [id |-> c.issued + 1, formData |-> getFormData(c)]
    IN  [c EXCEPT !.shown = "loading", !.refreshDisabled = TRUE,
                  !.pending = @ \cup {request}, !.issued = @ + 1,
                  !.latest = << request >>, !.latestReply = "none"]

\* generatePreview after its await: a good answer replaces currentImages and
\* shows the preview, anything else ends in showError.
previewResponse(c, request, reply) ==
    LET c1 == [c EXCEPT !.pending = @ \ {request},
                        !.latestReply = IF << request >> = c.latest
                                        THEN reply ELSE @]
    IN  IF reply = "ok"
        THEN [c1 EXCEPT !.currentImages = ImagesOf(request.formData),
                        !.shown = "preview", !.refreshDisabled = FALSE]
        ELSE [c1 EXCEPT !.shown = "error", !.refreshDisabled = FALSE]

\* selectProduct: the product, a fresh form with its default values and its
\* own debounce timer (a timer of the form before stays set), a preview.
selectProduct(c, productId) ==
    generatePreview([c EXCEPT !.currentProduct = productId,
                              !.language = "EN",
                              !.orphanTimers =
                                  IF c.debounceTimer THEN @ + 1 ELSE @,
                              !.debounceTimer = FALSE])

\* The change listener of setupAutoRefresh, after the input took the value.
inputChanged(c, value) ==
    [c EXCEPT !.language = value,
              !.debounceTimer = IF Len(c.currentImages) > 0 THEN TRUE ELSE @]

-----------------------------------------------------------------------------
(* SpecClient: one browser tab; hist holds the client's variables.          *)

InitU ==
    /\ cb = InitBreaker
    /\ now = 1
    /\ hist = InitClient
    /\ req = [r \in Slots |-> IdleRequest]
    /\ memoryCache = << >>
    /\ blobStore = << >>
    /\ useVercelBlob = FALSE
    /\ fnArgs = << >>
    /\ fnResult = << >>
    /\ rateLimitStore = << >>
    /\ adminKey = << >>

ClientStep(c) ==
    /\ hist' = c
    /\ UNCHANGED <<cb, now, req, memoryCache, blobStore, useVercelBlob,
                   fnArgs, fnResult, rateLimitStore, adminKey>>

\* A click on a product of the carousel.
SelectProduct ==
    \E productId \in ClientProducts :
        /\ hist.issued < MaxIssued
        /\ ClientStep(selectProduct(hist, productId))

\* The user changes the form's input.
ChangeInput ==
    \E value \in ClientValues :
        /\ hist.currentProduct # Null
        /\ value # hist.language
        /\ ClientStep(inputChanged(hist, value))

\* The debounce timer of the form runs out.
DebounceFires ==
    /\ hist.debounceTimer
    /\ hist.issued < MaxIssued
    /\ ClientStep(generatePreview([hist EXCEPT !.debounceTimer = FALSE]))

\* A timer that a form before this one had set runs out.
OrphanDebounceFires ==
    /\ hist.orphanTimers > 0
    /\ hist.issued < MaxIssued
    /\ ClientStep(generatePreview([hist EXCEPT !.orphanTimers = @ - 1]))

\* A click on the refresh button, which showLoading disables.
RefreshClick ==
    /\ hist.currentProduct # Null
    /\ ~hist.refreshDisabled
    /\ hist.issued < MaxIssued
    /\ ClientStep(generatePreview(hist))

\* A click on the retry button of the error state.
RetryClick ==
    /\ hist.shown = "error"
    /\ hist.issued < MaxIssued
    /\ ClientStep(generatePreview(hist))

\* The answer to one of the requests on their way arrives.
PreviewResponse ==
    \E request \in hist.pending, reply \in {"ok", "error"} :
        ClientStep(previewResponse(hist, request, reply))

NextU ==
    \/ SelectProduct
    \/ ChangeInput
    \/ DebounceFires
    \/ OrphanDebounceFires
    \/ RefreshClick
    \/ RetryClick
    \/ PreviewResponse

SpecClient == InitU /\ [][NextU]_vars

\* C39: once all outstanding preview requests have completed, currentImages
\* are the images of the most recently issued preview request; an answer to
\* an older request that arrives after a newer one never replaces the newer
\* result. Stated for the runs in which the latest request was answered
\* with images.
C39_LatestRequestShown ==
    (hist.pending = {} /\ hist.latestReply = "ok") =>
        hist.currentImages = ImagesOf(hist.latest[1].formData)

====
